---- MODULE Spec2Model ----
(***************************************************************************)
(* A model of the rust-socketio client.                                    *)
(*                                                                         *)
(*   Spec        the asynchronous Socket.IO Client                         *)
(*               (socketio/src/asynchronous/client/client.rs): the         *)
(*               outstanding acks, the callback table and the inbound      *)
(*               stream (poll_next / handle_socketio_packet).              *)
(*               Every inbound item is an ACK, an error or nothing.        *)
(*   SpecDispatch the same Client with every packet type inbound and at    *)
(*               most one outstanding ack; a dispatch may find its lock    *)
(*               held by another task.                                     *)
(*   SpecEngine  the Engine.IO socket (src/engineio/socket.rs): bind and   *)
(*               the callback registrations, called by two threads.        *)
(*   SpecEmit    EngineSocket::emit and emit_binary_attachment, called by  *)
(*               two threads before and after a bind.                      *)
(*   SpecWs      the WebSocket transport                                   *)
(*               (engineio/src/async_transports/mod.rs): an upgrade, two   *)
(*               emitting tasks and a poll on the two mutexes.             *)
(*   SpecFifo    one task emitting packet after packet on that transport.  *)
(*   SpecSession Client::connect, disconnect and emit on the InnerSocket.  *)
(*   SpecTransport TransportClient::open, emit and poll (src/transport.rs)  *)
(*               called on the client itself.                              *)
(*   SpecLoop    EngineSocket::bind and the poll loops it spawns.          *)
(*   SpecBuilder SocketBuilder (src/lib.rs) from new to connect.           *)
(*   SpecEmitAck Client::emit_with_ack with the InnerSocket failing.       *)
(*                                                                         *)
(* Option<T> is modelled as a sequence of length at most one: <<>> is None *)
(* and <<x>> is Some(x).  A text (Rust String) is a sequence of tokens, so *)
(* that parsing and serialising JSON are computed, not assumed.            *)
(***************************************************************************)
EXTENDS Integers, Sequences, FiniteSets

VARIABLES
    \* ---- Client (client.rs:34-41) ----
    nsp,               \* Client.nsp
    on,                \* Client.on: the events that have a callback
    outstanding_acks,  \* Client.outstanding_acks: Vec<Ack>
    \* ---- the task that polls the Client stream ----
    pc,                \* "idle" | "remove" | "panicked"
    packet,            \* handle_ack's socket_packet while pc = "remove"
    to_be_removed,     \* handle_ack's to_be_removed (0-based indices)
    \* ---- environment ----
    now,               \* the clock read by Instant::now() / elapsed()
    nRecv,             \* items taken from the underlying socket stream
    sent,              \* packets handed to socket.send
    \* ---- observations ----
    issued,            \* one record per emit_with_ack call, in call order
    invoked,           \* invoked[c]: the inbound ACKs that called call c's callback
    arrived,           \* arrived[c]: how the first ACK for call c answered it
    pre_acks,          \* outstanding_acks as handle_ack's scan found it
    scan_time,         \* the clock at handle_ack's scan
    lastItem,          \* the item poll_next took from the socket last
    lastCalls,         \* the callback invocations made for lastItem
    lastYield,         \* what poll_next returned for lastItem, if it has
    \* ---- EngineSocket / TransportClient (socket.rs, transport.rs) ----
    connected,         \* TransportClient.connected
    callbacks,         \* on_open, on_close, on_packet, on_data, on_error
    address,           \* TransportClient.address
    connection_data,   \* TransportClient.connection_data
    threads,           \* poll loops spawned by bind
    transport_log,     \* calls that reached TransportClient::emit
    open_calls,        \* invocations of the on_open callback
    opened,            \* an open or a bind has returned Ok
    lastOp,            \* the last EngineSocket/TransportClient call and its result
    callers,           \* per calling thread: the EngineSocket call it is in
    \* ---- AsyncWebsocketGeneralTransport (async_transports/mod.rs:20-23) ----
    sender,            \* the sender mutex: "free" or the task that holds it
    receiver,          \* the receiver mutex: "free" or the task that holds it
    wire,              \* the frames handed to the WebSocket stream, in order
    sink,              \* the sender sink: the frame in its slot, and how far each send is
    tasks,             \* per task: its position and the calls it has made
    probe,             \* what receiver.next() gave upgrade
    \* ---- the InnerSocket under the Client (client.rs:36) ----
    socket_log,        \* the calls made on Client.socket, in order
    lastClientOp,      \* the last call of the Client that returned, and its result
    in_flight,         \* the calls of the Client that are suspended at an await
    \* ---- TransportClient::emit and poll, and bind's poll loops ----
    requests,          \* the HTTP requests issued by emit and poll, in order
    delivered,         \* the on_packet and on_data invocations made by poll
    poll_loop,         \* per thread spawned by bind: the state of its loop
    \* ---- SocketBuilder (lib.rs:109-111) ----
    builder            \* the builder, its socket's namespace and callbacks

clientVars == <<nsp, on, outstanding_acks, pc, packet, to_be_removed, now, nRecv,
                sent, issued, invoked, arrived, pre_acks, scan_time, lastItem,
                lastCalls, lastYield>>
engineVars == <<connected, callbacks, address, connection_data, threads,
                transport_log, open_calls, opened, lastOp, callers>>
wsVars == <<sender, receiver, wire, sink, tasks, probe>>
sessVars == <<socket_log, lastClientOp, in_flight>>
pollVars == <<requests, delivered, poll_loop>>
builderVars == <<builder>>
vars == <<clientVars, engineVars, wsVars, sessVars, pollVars, builderVars>>

----------------------------------------------------------------------------
(* Bounds of the model.                                                    *)

MaxEmits == 3      \* emit_with_ack calls
MaxRecv == 2       \* items taken from the socket stream
MaxTime == 2       \* clock ticks
MaxDispatchEmits == 1   \* emit_with_ack calls in SpecDispatch
MaxInFlight == 1   \* emit_with_ack calls in progress, and emit calls in progress
MaxSessionCalls == 2   \* connect and disconnect calls in progress
MaxThreads == 2    \* poll loops spawned by bind
MaxOpens == 2      \* invocations of the on_open callback
MaxHanded == 3     \* packets handed to TransportClient::emit
MaxWsEmits == 1    \* emit calls of each of the concurrent emitting tasks
MaxFifoEmits == 3  \* emit calls of the task that emits one packet after another
MaxPolls == 1      \* poll calls on the WebSocket transport
MaxSocketCalls == 6   \* calls made on the Client's InnerSocket
MaxRequests == 2   \* HTTP requests made by TransportClient::emit and poll
MaxCycles == 3     \* poll_cycle calls of one poll loop
MaxBuilderCalls == 3   \* set_namespace and on calls on one SocketBuilder

----------------------------------------------------------------------------
(* Option, texts and JSON.                                                 *)

None == <<>>
Some(x) == <<x>>
IsSome(o) == Len(o) > 0
Unwrap(o) == o[1]

\* Tokens of a text: punctuation, a quoted string, a number, other characters.
P(s) == [k |-> "p", s |-> s]
Q(s) == [k |-> "q", s |-> s]
N(s) == [k |-> "n", s |-> s]
W(s) == [k |-> "w", s |-> s]

\* A JSON value (serde_json::Value). s is the text of a string, number or
\* literal, a the elements of an array; the members of an object are kept in a
\* as key, value, key, value, sorted by key as serde_json's map keeps them.
JString(s) == [t |-> "String", s |-> s, a |-> <<>>]
JNumber(s) == [t |-> "Number", s |-> s, a |-> <<>>]
JBool(s) == [t |-> "Bool", s |-> s, a |-> <<>>]
JNull == [t |-> "Null", s |-> "null", a |-> <<>>]
JArray(a) == [t |-> "Array", s |-> "", a |-> a]
JObject(a) == [t |-> "Object", s |-> "", a |-> a]

\* The strings of the model in byte order, for the keys of an object.
StringOrder == <<"A", "B", "a", "b", "hello", "pong", "sid", "test", "x">>
StrRank(s) == CHOOSE i \in 1..Len(StringOrder) : StringOrder[i] = s

\* Map::insert(key, val) on the members of an object: a key already there takes
\* the new value, a new key goes to its place in the order.
RECURSIVE Insert(_, _, _)
Insert(members, key, val) ==
    IF members = <<>> THEN <<JString(key), val>>
    ELSE IF members[1].s = key THEN <<JString(key), val>> \o SubSeq(members, 3, Len(members))
    ELSE IF StrRank(key) < StrRank(members[1].s) THEN <<JString(key), val>> \o members
    ELSE SubSeq(members, 1, 2) \o Insert(SubSeq(members, 3, Len(members)), key, val)

\* The parser's result at a position of the text: the value and the position
\* after it, or a failure.
ParseFailed == [ok |-> FALSE, val |-> JNull, next |-> 0]
Parsed(val, next) == [ok |-> TRUE, val |-> val, next |-> next]
TokIs(text, i, tok) == i <= Len(text) /\ text[i] = tok

RECURSIVE ParseValue(_, _), ParseElements(_, _, _), ParseMembers(_, _, _)
ParseValue(text, i) ==
    IF i > Len(text) THEN ParseFailed
    ELSE LET tok == text[i] IN
         IF tok.k = "q" THEN Parsed(JString(tok.s), i + 1)
         ELSE IF tok.k = "n" THEN Parsed(JNumber(tok.s), i + 1)
         ELSE IF tok = W("true") \/ tok = W("false") THEN Parsed(JBool(tok.s), i + 1)
         ELSE IF tok = W("null") THEN Parsed(JNull, i + 1)
         ELSE IF tok = P("[")
         THEN (IF TokIs(text, i + 1, P("]")) THEN Parsed(JArray(<<>>), i + 2)
               ELSE ParseElements(text, i + 1, <<>>))
         ELSE IF tok = P("{")
         THEN (IF TokIs(text, i + 1, P("}")) THEN Parsed(JObject(<<>>), i + 2)
               ELSE ParseMembers(text, i + 1, <<>>))
         ELSE ParseFailed

\* The elements of an array from position i on, acc being those before.
ParseElements(text, i, acc) ==
    LET v == ParseValue(text, i) IN
    IF ~v.ok THEN ParseFailed
    ELSE IF TokIs(text, v.next, P(","))
    THEN ParseElements(text, v.next + 1, Append(acc, v.val))
    ELSE IF TokIs(text, v.next, P("]")) THEN Parsed(JArray(Append(acc, v.val)), v.next + 1)
    ELSE ParseFailed

\* The members of an object from position i on, acc being those before.
ParseMembers(text, i, acc) ==
    IF ~(i <= Len(text) /\ text[i].k = "q" /\ TokIs(text, i + 1, P(":")))
    THEN ParseFailed
    ELSE LET v == ParseValue(text, i + 2) IN
         IF ~v.ok THEN ParseFailed
         ELSE IF TokIs(text, v.next, P(","))
         THEN ParseMembers(text, v.next + 1, Insert(acc, text[i].s, v.val))
         ELSE IF TokIs(text, v.next, P("}"))
         THEN Parsed(JObject(Insert(acc, text[i].s, v.val)), v.next + 1)
         ELSE ParseFailed

\* serde_json::from_str::<Value>(data): [ok, val]. The whole text must be one
\* value.
from_str(text) ==
    LET r == ParseValue(text, 1) IN
    IF r.ok /\ r.next = Len(text) + 1 THEN [ok |-> TRUE, val |-> r.val]
    ELSE [ok |-> FALSE, val |-> JArray(<<>>)]

\* Value::to_string(): the JSON text of a value.
RECURSIVE to_string(_), Join(_), JoinMembers(_)
to_string(v) ==
    CASE v.t = "String" -> <<Q(v.s)>>
      [] v.t = "Number" -> <<N(v.s)>>
      [] v.t \in {"Bool", "Null"} -> <<W(v.s)>>
      [] v.t = "Array" -> <<P("[")>> \o Join(v.a) \o <<P("]")>>
      [] v.t = "Object" -> <<P("{")>> \o JoinMembers(v.a) \o <<P("}")>>

Join(a) ==
    IF a = <<>> THEN <<>>
    ELSE IF Len(a) = 1 THEN to_string(a[1])
    ELSE to_string(a[1]) \o <<P(",")>> \o Join(Tail(a))

JoinMembers(a) ==
    IF a = <<>> THEN <<>>
    ELSE <<Q(a[1].s), P(":")>> \o to_string(a[2])
         \o (IF Len(a) = 2 THEN <<>> ELSE <<P(",")>> \o JoinMembers(SubSeq(a, 3, Len(a))))

\* A replace that leaves the text as it is.
StripQuotes_Kept(text) == text

\* str::replace('"', ""): a quoted string loses its quotes.
StripQuotes(text) ==
    [i \in 1..Len(text) |-> IF text[i].k = "q" THEN W(text[i].s) ELSE text[i]]

\* A plain string such as an event name.
Str(s) == <<W(s)>>

----------------------------------------------------------------------------
(* Events and payloads.                                                    *)

Message == [e |-> "Message", name |-> <<>>]
Error == [e |-> "Error", name |-> <<>>]
Connect == [e |-> "Connect", name |-> <<>>]
Close == [e |-> "Close", name |-> <<>>]
Custom(name) == [e |-> "Custom", name |-> name]

\* Event::from(String)
EventFrom(text) ==
    IF text = Str("message") THEN Message
    ELSE IF text = Str("error") THEN Error
    ELSE IF text = Str("open") THEN Connect
    ELSE IF text = Str("close") THEN Close
    ELSE Custom(text)

PString(text) == [kind |-> "String", v |-> text]
PBinary(bytes) == [kind |-> "Binary", v |-> bytes]

----------------------------------------------------------------------------
(* Socket.IO packets and the items of the underlying socket stream.        *)

Packet(type, n, data, id, count, attachments) ==
    [packet_type |-> type, nsp |-> n, data |-> data, id |-> id,
     attachment_count |-> count, attachments |-> attachments]

Namespaces == {Str("/"), Str("/admin")}
Ids == {0, 1}
Timeouts == {1}

T_pong == <<P("["), Q("pong"), P("]")>>                  \* ["pong"]
T_testA == <<P("["), Q("test"), P(","), Q("A"), P("]")>>  \* ["test","A"]
T_hello == <<P("["), Q("hello"), P("]")>>                \* ["hello"]
T_empty == <<P("["), P("]")>>                            \* []
T_numX == <<P("["), N("1"), P(","), Q("x"), P("]")>>      \* [1,"x"]
T_str == <<Q("test")>>                                   \* "test"
T_bad == <<W("oops")>>                                   \* oops
T_nested == <<P("["), Q("test"), P(","), P("["), N("1"), P("]"), P("]")>>  \* ["test",[1]]
T_true == <<P("["), W("true"), P("]")>>                  \* [true]
B_456 == <<4, 5, 6>>
B_123 == <<1, 2, 3>>

\* The payload of an ACK: nothing, text, one or two attachments, text and one.
AckShapes ==
    { [data |-> None, attachments |-> None],
      [data |-> Some(T_pong), attachments |-> None],
      [data |-> None, attachments |-> Some(<<B_456>>)],
      [data |-> None, attachments |-> Some(<<B_123, B_456>>)],
      [data |-> Some(T_pong), attachments |-> Some(<<B_456>>)],
      [data |-> None, attachments |-> Some(<<>>)] }

AttachmentCount(attachments) ==
    IF IsSome(attachments) THEN Len(Unwrap(attachments)) ELSE 0

AckPacketsOf(n) ==
    { Packet(IF IsSome(s.attachments) THEN "BinaryAck" ELSE "Ack", n, s.data, i,
             AttachmentCount(s.attachments), s.attachments) :
        s \in AckShapes, i \in {None} \cup {Some(x) : x \in Ids} }

EventPacketsOf(n) ==
    { Packet("Event", n, d, None, 0, None) :
        d \in {None, Some(T_testA), Some(T_hello), Some(T_empty), Some(T_numX),
               Some(T_str), Some(T_bad), Some(T_nested), Some(T_true)} }

BinaryEventPacketsOf(n) ==
    { Packet("BinaryEvent", n, d, None, Len(a), IF a = <<>> THEN None ELSE Some(a)) :
        d \in {None, Some(T_str), Some(T_hello)}, a \in {<<>>, <<B_456>>} }

ControlPacketsOf(n) ==
    { Packet(t, n, None, None, 0, None) : t \in {"Connect", "Disconnect", "ConnectError"} }
    \cup { Packet("ConnectError", n, Some(T_str), None, 0, None) }

\* Every packet for the client's namespace, and for the other namespace one
\* packet of every type that would call a callback if it were dispatched.
Foreign(p) ==
    \/ p.packet_type \in {"Connect", "Disconnect", "ConnectError"} /\ p.data = None
    \/ p.packet_type = "Event" /\ p.data = Some(T_testA)
    \/ p.packet_type = "BinaryEvent" /\ p.data = Some(T_str) /\ IsSome(p.attachments)
    \/ IsSome(p.id) /\ p.data = Some(T_pong) /\ p.attachment_count < 2

PacketsOf(n) ==
    AckPacketsOf(n) \cup EventPacketsOf(n) \cup BinaryEventPacketsOf(n)
        \cup ControlPacketsOf(n)

Packets ==
    PacketsOf(Str("/admin")) \cup {p \in PacketsOf(Str("/")) : Foreign(p)}

\* An item of the socket stream: None (the stream ended), Some(Err) or Some(Ok).
ItemNone == [tag |-> "None", packet |-> None]
ItemErr == [tag |-> "Err", packet |-> None]
ItemOk(p) == [tag |-> "Ok", packet |-> Some(p)]
Items == {ItemNone, ItemErr} \cup {ItemOk(p) : p \in Packets}
\* The items that matter to the outstanding acks.
AckItems == {ItemNone, ItemErr} \cup {ItemOk(p) : p \in {q \in Packets : IsSome(q.id)}}

ErrText == Str("EngineIO Error")

\* One invocation of a user callback.
OnCall(event, payload) == [target |-> "on", event |-> event, cb |-> 0, payload |-> payload]
AckCall(cb, payload) == [target |-> "ack", event |-> Message, cb |-> cb, payload |-> payload]

\* What a handler did: whether it panicked and the callbacks it invoked.
Done(calls) == [panic |-> FALSE, calls |-> calls]
Panic == [panic |-> TRUE, calls |-> <<>>]

----------------------------------------------------------------------------
(* The Client: callbacks and handlers (client.rs).                         *)

Ack(id, timeout, time_started, callback) ==
    [id |-> id, timeout |-> timeout, time_started |-> time_started,
     callback |-> callback]

\* Client::callback: the callback registered for the event, if any, is called.
callback(event, payload) ==
    IF event \in on THEN <<OnCall(event, payload)>> ELSE <<>>

\* A deadline that is still met at the instant it passes.
InTime_Inclusive(ack, t) == t - ack.time_started <= ack.timeout

\* ack.time_started.elapsed() < ack.timeout, read at clock t.
InTime(ack, t) == t - ack.time_started < ack.timeout

\* The two payloads handed over in the other order.
AckCalls_BinaryFirst(ack, socket_packet) ==
    (IF IsSome(socket_packet.attachments) /\ Len(Unwrap(socket_packet.attachments)) > 0
     THEN <<AckCall(ack.callback, PBinary(Unwrap(socket_packet.attachments)[1]))>>
     ELSE <<>>)
    \o
    (IF IsSome(socket_packet.data)
     THEN <<AckCall(ack.callback, PString(Unwrap(socket_packet.data)))>>
     ELSE <<>>)

\* handle_ack, per matching entry in time: the text data and the first attachment.
AckCalls(ack, socket_packet) ==
    (IF IsSome(socket_packet.data)
     THEN <<AckCall(ack.callback, PString(Unwrap(socket_packet.data)))>>
     ELSE <<>>)
    \o
    (IF IsSome(socket_packet.attachments) /\ Len(Unwrap(socket_packet.attachments)) > 0
     THEN <<AckCall(ack.callback, PBinary(Unwrap(socket_packet.attachments)[1]))>>
     ELSE <<>>)

\* handle_ack's walk over outstanding_acks from the (0-based) index on, under one
\* write lock: the indices of the entries with the id, and the callbacks called.
RECURSIVE Scan(_, _, _, _, _)
Scan(acks, id, socket_packet, t, index) ==
    IF index >= Len(acks) THEN [to_be_removed |-> <<>>, calls |-> <<>>]
    ELSE LET ack == acks[index + 1]
             rest == Scan(acks, id, socket_packet, t, index + 1)
         IN  IF ack.id = id
             THEN [to_be_removed |-> <<index>> \o rest.to_be_removed,
                   calls |-> (IF InTime(ack, t) THEN AckCalls(ack, socket_packet)
                              ELSE <<>>) \o rest.calls]
             ELSE rest

\* A scan that takes a packet without an id for one with id 0.
handle_ack_scan_NoIdTest(acks, socket_packet, t) ==
    Scan(acks, IF IsSome(socket_packet.id) THEN Unwrap(socket_packet.id) ELSE 0,
         socket_packet, t, 0)

\* handle_ack up to the end of its first loop.
handle_ack_scan(acks, socket_packet, t) ==
    IF IsSome(socket_packet.id)
    THEN Scan(acks, Unwrap(socket_packet.id), socket_packet, t, 0)
    ELSE [to_be_removed |-> <<>>, calls |-> <<>>]

\* Vec::remove(index): panics when index is out of bounds.
VecRemove(v, index) ==
    IF index >= Len(v) THEN [panic |-> TRUE, v |-> v]
    ELSE [panic |-> FALSE,
          v |-> SubSeq(v, 1, index) \o SubSeq(v, index + 2, Len(v))]

\* handle_binary_event
handle_binary_event(p) ==
    LET event == IF IsSome(p.data) THEN EventFrom(StripQuotes(Unwrap(p.data)))
                 ELSE Message
    IN  IF IsSome(p.attachments) /\ Len(Unwrap(p.attachments)) > 0
        THEN Done(callback(event, PBinary(Unwrap(p.attachments)[1])))
        ELSE Done(<<>>)

\* The first element names the event whatever the length of the array.
EventOf_First(contents) ==
    IF contents[1].t = "String" THEN EventFrom(Str(contents[1].s))
    ELSE EventFrom(Str("message"))

\* The event handle_event takes from the parsed array.
EventOf(contents) ==
    IF Len(contents) > 1
    THEN (IF contents[1].t = "String" THEN EventFrom(Str(contents[1].s))
          ELSE EventFrom(Str("message")))
    ELSE Message

\* handle_event: contents.get(1), else contents.get(0).unwrap(), which panics on
\* the empty array.
handle_event(p) ==
    IF ~IsSome(p.data) THEN Done(<<>>)
    ELSE LET parsed == from_str(Unwrap(p.data))
             contents == parsed.val.a
         IN  IF ~(parsed.ok /\ parsed.val.t = "Array") THEN Done(<<>>)
             ELSE IF Len(contents) = 0 THEN Panic
             ELSE Done(callback(EventOf(contents),
                                PString(to_string(IF Len(contents) > 1
                                                  THEN contents[2]
                                                  ELSE contents[1]))))

ConnectErrorText(p) ==
    Str("Received an ConnectError frame: ")
    \o (IF IsSome(p.data) THEN Unwrap(p.data) ELSE <<Q("No error message provided")>>)

\* handle_socketio_packet's test of the packet's namespace.
NspMatches(p) == p.nsp = nsp

\* handle_socketio_packet for every packet type but Ack and BinaryAck.
handle_other(p) ==
    IF ~NspMatches(p) THEN Done(<<>>)
    ELSE CASE p.packet_type = "BinaryEvent" -> handle_binary_event(p)
           [] p.packet_type = "Connect" -> Done(callback(Connect, PString(<<>>)))
           [] p.packet_type = "Disconnect" -> Done(callback(Close, PString(<<>>)))
           [] p.packet_type = "ConnectError" ->
                 Done(callback(Error, PString(ConnectErrorText(p))))
           [] OTHER -> handle_event(p)

IsAckType(p) == p.packet_type \in {"Ack", "BinaryAck"}

\* No test of the namespace at all.
ForThisNamespace_Any(p) == TRUE

\* poll_next's test of the packet's namespace.
ForThisNamespace(p) == p.nsp = nsp

----------------------------------------------------------------------------
(* The Client: actions.                                                    *)

OnConfigs ==
    { {Message, Error, Connect, Close, Custom(Str("test"))},
      {Message, Error} }

NoYield == [tag |-> "Pending", packet |-> None]
YieldErr == [tag |-> "Err", packet |-> None]
YieldOk(p) == [tag |-> "Ok", packet |-> Some(p)]

ClientInit ==
    /\ nsp = Str("/admin")
    /\ on \in OnConfigs
    /\ outstanding_acks = <<>>
    /\ pc = "idle"
    /\ packet = None
    /\ to_be_removed = <<>>
    /\ now = 0
    /\ nRecv = 0
    /\ sent = <<>>
    /\ issued = <<>>
    /\ invoked = <<>>
    /\ arrived = <<>>
    /\ pre_acks = <<>>
    /\ scan_time = 0
    /\ lastItem = ItemNone
    /\ lastCalls = <<>>
    /\ lastYield = NoYield

\* The clock advances.
Tick ==
    /\ now < MaxTime
    /\ now' = now + 1
    /\ UNCHANGED <<nsp, on, outstanding_acks, pc, packet, to_be_removed, nRecv, sent,
                   issued, invoked, arrived, pre_acks, scan_time, lastItem,
                   lastCalls, lastYield>>
    /\ UNCHANGED <<engineVars, wsVars, sessVars, pollVars, builderVars>>

\* The results the InnerSocket's calls may have.
SocketResults == {"Ok", "Err"}

\* A call on the InnerSocket: connect, build_packet_for_payload, send(packet) or
\* disconnect, with its result.
SocketCall(call, pkt, result) == [call |-> call, packet |-> pkt, result |-> result]

\* A call of the Client that has returned: its result, and the places in
\* socket_log of the calls it made on the socket.
ClientOp(name, result, made) == [op |-> name, result |-> result, made |-> made]

\* A call of the Client suspended at an await: op is the method, call the number
\* of an emit_with_ack in issued (0 for the other methods), stage what it awaits
\* and made the places in socket_log of the calls it has made on the socket.
InFlight(op, call, stage, made) ==
    [op |-> op, call |-> call, stage |-> stage, made |-> made]

\* The emit_with_ack calls in progress, and the connects and disconnects.
Emitting == {e \in in_flight : e.op = "emit_with_ack"}
Sessions == {e \in in_flight : e.op \in {"connect", "disconnect"}}

\* The packet emit_with_ack builds: an EVENT for the namespace with the id.
AckRequest(id) == [packet_type |-> "Event", nsp |-> nsp, id |-> Some(id)]

\* emit_with_ack up to its first await (client.rs:197-206): id is thread_rng's
\* draw, built the result of socket.build_packet_for_payload, whose error is
\* returned by the ? operator; on Ok the Ack is made with Instant::now() read here.
\* The event and the data only shape the packet that is sent.
emit_with_ack_build(id, timeout, built) ==
    /\ Len(issued) < MaxEmits
    /\ Cardinality(Emitting) < MaxInFlight
    /\ IF built # "Ok"
       THEN /\ socket_log' =
                  Append(socket_log, SocketCall("build_packet_for_payload", None, built))
            /\ lastClientOp' =
                  ClientOp("emit_with_ack", built, <<Len(socket_log) + 1>>)
            /\ UNCHANGED <<issued, invoked, arrived, in_flight>>
       ELSE /\ socket_log' =
                  Append(socket_log,
                         SocketCall("build_packet_for_payload", Some(AckRequest(id)),
                                    "Ok"))
            /\ issued' =
                  Append(issued, [id |-> id, timeout |-> timeout, time_started |-> now])
            /\ invoked' = Append(invoked, 0)
            /\ arrived' = Append(arrived, "none")
            /\ in_flight' =
                  in_flight \cup {InFlight("emit_with_ack", Len(issued) + 1, "lock",
                                           <<Len(socket_log) + 1>>)}
            /\ UNCHANGED lastClientOp
    /\ UNCHANGED <<nsp, on, outstanding_acks, pc, packet, to_be_removed, now, nRecv,
                   sent, pre_acks, scan_time, lastItem, lastCalls, lastYield>>
    /\ UNCHANGED <<engineVars, wsVars, pollVars, builderVars>>

\* emit_with_ack going on to socket.send without recording the entry.
emit_with_ack_push_NoEntry(e) ==
    /\ e \in Emitting
    /\ e.stage = "lock"
    /\ in_flight' =
          (in_flight \ {e}) \cup {InFlight("emit_with_ack", e.call, "pushed", e.made)}
    /\ UNCHANGED <<nsp, on, outstanding_acks, pc, packet, to_be_removed, now, nRecv,
                   sent, issued, invoked, arrived, pre_acks, scan_time, lastItem,
                   lastCalls, lastYield, lastClientOp, socket_log>>
    /\ UNCHANGED <<engineVars, wsVars, pollVars, builderVars>>

\* emit_with_ack once it has the write lock (client.rs:209): the Ack made at the
\* build is pushed, and the guard is dropped as the statement ends.
emit_with_ack_push(e) ==
    /\ e \in Emitting
    /\ e.stage = "lock"
    /\ outstanding_acks' =
          Append(outstanding_acks,
                 Ack(issued[e.call].id, issued[e.call].timeout,
                     issued[e.call].time_started, e.call))
    /\ in_flight' =
          (in_flight \ {e}) \cup {InFlight("emit_with_ack", e.call, "pushed", e.made)}
    /\ UNCHANGED <<nsp, on, pc, packet, to_be_removed, now, nRecv, sent, issued,
                   invoked, arrived, pre_acks, scan_time, lastItem, lastCalls,
                   lastYield, lastClientOp, socket_log>>
    /\ UNCHANGED <<engineVars, wsVars, pollVars, builderVars>>

\* emit_with_ack after the push (client.rs:211): socket.send is called with the
\* packet.
emit_with_ack_send(e) ==
    /\ e \in Emitting
    /\ e.stage = "pushed"
    /\ sent' = Append(sent, AckRequest(issued[e.call].id))
    /\ socket_log' =
          Append(socket_log,
                 SocketCall("send", Some(AckRequest(issued[e.call].id)), "pending"))
    /\ in_flight' =
          (in_flight \ {e})
             \cup {InFlight("emit_with_ack", e.call, "sending",
                            Append(e.made, Len(socket_log) + 1))}
    /\ UNCHANGED <<nsp, on, outstanding_acks, pc, packet, to_be_removed, now, nRecv,
                   issued, invoked, arrived, pre_acks, scan_time, lastItem, lastCalls,
                   lastYield, lastClientOp>>
    /\ UNCHANGED <<engineVars, wsVars, pollVars, builderVars>>

\* socket.send returns sent_, and emit_with_ack returns it (client.rs:211).
emit_with_ack_return(e, sent_) ==
    /\ e \in Emitting
    /\ e.stage = "sending"
    /\ socket_log' = [socket_log EXCEPT ![e.made[2]].result = sent_]
    /\ lastClientOp' = ClientOp("emit_with_ack", sent_, e.made)
    /\ in_flight' = in_flight \ {e}
    /\ UNCHANGED <<clientVars, engineVars, wsVars, pollVars, builderVars>>

\* emit_with_ack on the client or a clone of it, step by step.
emit_with_ack(ids, timeouts, results) ==
    \/ \E id \in ids, timeout \in timeouts, built \in results :
          emit_with_ack_build(id, timeout, built)
    \/ \E e \in in_flight : emit_with_ack_push(e)
    \/ \E e \in in_flight : emit_with_ack_send(e)
    \/ \E e \in in_flight, sent_ \in results : emit_with_ack_return(e, sent_)

\* emit_with_ack calls that succeed.
EmitWithAck == emit_with_ack(Ids, Timeouts, {"Ok"})

\* A single emit_with_ack.
EmitWithAckOnce ==
    /\ Len(issued) < MaxDispatchEmits \/ Emitting # {}
    /\ emit_with_ack({0}, {1}, {"Ok"})

\* emit_with_ack calls whose packet may fail to be built or to be sent.
EmitWithAckAny ==
    /\ Len(socket_log) + 2 <= MaxSocketCalls \/ Emitting # {}
    /\ emit_with_ack(Ids, Timeouts, SocketResults)

\* Client::emit: self.socket.emit(&self.nsp, event, data) is called
\* (client.rs:107).
emit_call ==
    /\ Len(socket_log) + Cardinality(in_flight) < MaxSocketCalls
    /\ Cardinality({e \in in_flight : e.op = "emit"}) < MaxInFlight
    /\ socket_log' =
          Append(socket_log,
                 SocketCall("emit", Some([packet_type |-> "Event", nsp |-> nsp,
                                          id |-> None]), "pending"))
    /\ in_flight' =
          in_flight \cup {InFlight("emit", 0, "emit", <<Len(socket_log) + 1>>)}
    /\ UNCHANGED lastClientOp
    /\ UNCHANGED <<clientVars, engineVars, wsVars, pollVars, builderVars>>

\* Client::emit: socket.emit(..).await returns, and emit returns its result
\* (client.rs:107).
emit_return(e, result) ==
    /\ e \in in_flight
    /\ e.op = "emit"
    /\ socket_log' = [socket_log EXCEPT ![e.made[1]].result = result]
    /\ lastClientOp' = ClientOp("emit", result, e.made)
    /\ in_flight' = in_flight \ {e}
    /\ UNCHANGED <<clientVars, engineVars, wsVars, pollVars, builderVars>>

ClientEmit ==
    \/ emit_call
    \/ \E e \in in_flight, result \in SocketResults : emit_return(e, result)

CountCb(calls, c) ==
    Cardinality({i \in 1..Len(calls) : calls[i].target = "ack" /\ calls[i].cb = c})

\* Whether an ACK packet carries a payload for the callback.
HasPayload(p) ==
    IsSome(p.data) \/ (IsSome(p.attachments) /\ Unwrap(p.attachments) # <<>>)

\* Call c of issued has pushed its entry.
Pushed(c) == \A e \in Emitting : e.call = c => e.stage # "lock"

\* For each emit_with_ack call, how the first ACK with the call's id that came in
\* for the client's namespace once its packet was handed to the socket answered
\* it: "in_time" when it carried a payload and came before the call's deadline,
\* "missed" otherwise; "none" until it comes.
ArrivedAfter(item) ==
    [c \in 1..Len(issued) |->
        IF arrived[c] # "none" THEN arrived[c]
        ELSE IF /\ Pushed(c)
                /\ item.tag = "Ok"
                /\ Unwrap(item.packet).packet_type \in {"Ack", "BinaryAck"}
                /\ Unwrap(item.packet).nsp = nsp
                /\ Unwrap(item.packet).id = Some(issued[c].id)
        THEN IF /\ HasPayload(Unwrap(item.packet))
                /\ now < issued[c].time_started + issued[c].timeout
             THEN "in_time" ELSE "missed"
        ELSE "none"]

\* One turn of poll_next's loop: the next item of the socket stream is handled.
poll_next(item) ==
    /\ pc = "idle"
    /\ nRecv < MaxRecv
    /\ nRecv' = nRecv + 1
    /\ lastItem' = item
    /\ arrived' = ArrivedAfter(item)
    /\ UNCHANGED <<nsp, on, outstanding_acks, now, sent, issued>>
    /\ UNCHANGED <<engineVars, wsVars, sessVars, pollVars, builderVars>>
    /\ IF item.tag = "None"
       THEN \* the loop polls the socket again
            /\ lastCalls' = <<>>
            /\ lastYield' = NoYield
            /\ UNCHANGED <<pc, packet, to_be_removed, invoked, pre_acks, scan_time>>
       ELSE IF item.tag = "Err"
       THEN /\ lastCalls' = callback(Error, PString(ErrText))
            /\ lastYield' = YieldErr
            /\ UNCHANGED <<pc, packet, to_be_removed, invoked, pre_acks, scan_time>>
       ELSE LET p == Unwrap(item.packet) IN
            IF ~ForThisNamespace(p)
            THEN \* skipped: the loop polls the socket again
                 /\ lastCalls' = <<>>
                 /\ lastYield' = NoYield
                 /\ UNCHANGED <<pc, packet, to_be_removed, invoked, pre_acks,
                                scan_time>>
            ELSE IF IsAckType(p) /\ NspMatches(p)
            THEN LET scan == handle_ack_scan(outstanding_acks, p, now) IN
                 /\ lastCalls' = scan.calls
                 /\ invoked' = [c \in 1..Len(invoked) |->
                                   invoked[c] + (IF CountCb(scan.calls, c) > 0
                                                 THEN 1 ELSE 0)]
                 /\ to_be_removed' = scan.to_be_removed
                 /\ packet' = Some(p)
                 /\ pre_acks' = outstanding_acks
                 /\ scan_time' = now
                 /\ pc' = "remove"
                 /\ lastYield' = NoYield
            ELSE LET r == handle_other(p) IN
                 /\ lastCalls' = r.calls
                 /\ pc' = IF r.panic THEN "panicked" ELSE "idle"
                 /\ lastYield' = IF r.panic THEN NoYield ELSE YieldOk(p)
                 /\ UNCHANGED <<packet, to_be_removed, invoked, pre_acks, scan_time>>

PollNext == \E item \in Items : poll_next(item)

PollNextAck == \E item \in AckItems : poll_next(item)

\* The ACKs of the client's namespace that carry an id.
AckReplies ==
    {ItemOk(p) : p \in {q \in Packets : /\ q.packet_type = "Ack"
                                       /\ q.nsp = Str("/admin")
                                       /\ IsSome(q.id)}}

PollNextReply == \E item \in AckReplies : poll_next(item)

\* handle_ack's second loop, one removal per write lock; after the last one
\* handle_ack returns and poll_next yields the packet.
RemoveStep ==
    /\ pc = "remove"
    /\ UNCHANGED <<nsp, on, now, nRecv, sent, issued, invoked, arrived, lastItem,
                   lastCalls>>
    /\ UNCHANGED <<engineVars, wsVars, sessVars, pollVars, builderVars>>
    /\ IF to_be_removed # <<>>
       THEN LET r == VecRemove(outstanding_acks, Head(to_be_removed)) IN
            /\ outstanding_acks' = r.v
            /\ pc' = IF r.panic THEN "panicked" ELSE "remove"
            /\ to_be_removed' = Tail(to_be_removed)
            /\ UNCHANGED <<packet, pre_acks, scan_time, lastYield>>
       ELSE /\ pc' = "idle"
            /\ scan_time' = 0
            /\ lastYield' = YieldOk(Unwrap(packet))
            /\ packet' = None
            /\ pre_acks' = <<>>
            /\ UNCHANGED <<outstanding_acks, to_be_removed>>

\* Whether the dispatch of packet p awaits the callback table's lock or the
\* outstanding acks' lock: handle_ack with an id, and every handler that gets as
\* far as self.callback(..).
AwaitsLock(p) ==
    IF IsAckType(p) THEN IsSome(p.id)
    ELSE CASE p.packet_type = "BinaryEvent" ->
                 IsSome(p.attachments) /\ Len(Unwrap(p.attachments)) > 0
           [] p.packet_type \in {"Connect", "Disconnect", "ConnectError"} -> TRUE
           [] OTHER ->
                 /\ IsSome(p.data)
                 /\ from_str(Unwrap(p.data)).ok
                 /\ from_str(Unwrap(p.data)).val.t = "Array"
                 /\ Len(from_str(Unwrap(p.data)).val.a) > 0

\* poll_next when the future it polls once (the Error callback's, or
\* handle_socketio_packet's) is not ready because another task holds the lock it
\* awaits: ready! returns Poll::Pending, and the future and the item taken from
\* the socket are dropped.
poll_next_pending(item) ==
    /\ pc = "idle"
    /\ nRecv < MaxRecv
    /\ \/ item.tag = "Err"
       \/ /\ item.tag = "Ok"
          /\ ForThisNamespace(Unwrap(item.packet))
          /\ AwaitsLock(Unwrap(item.packet))
    /\ nRecv' = nRecv + 1
    /\ lastItem' = item
    /\ arrived' = ArrivedAfter(item)
    /\ lastCalls' = <<>>
    /\ lastYield' = NoYield
    /\ UNCHANGED <<nsp, on, outstanding_acks, now, sent, issued, pc, packet,
                   to_be_removed, invoked, pre_acks, scan_time>>
    /\ UNCHANGED <<engineVars, wsVars, sessVars, pollVars, builderVars>>

PollNextPending == \E item \in Items : poll_next_pending(item)

\* handle_ack's removal loop when outstanding_acks.write() is not ready: poll_next
\* returns Poll::Pending and the future is dropped with the removals not made.
RemovePending ==
    /\ pc = "remove"
    /\ to_be_removed # <<>>
    /\ pc' = "idle"
    /\ to_be_removed' = <<>>
    /\ packet' = None
    /\ pre_acks' = <<>>
    /\ scan_time' = 0
    /\ UNCHANGED <<nsp, on, outstanding_acks, now, nRecv, sent, issued, invoked,
                   arrived, lastItem, lastCalls, lastYield>>
    /\ UNCHANGED <<engineVars, wsVars, sessVars, pollVars, builderVars>>

----------------------------------------------------------------------------
(* The Engine.IO socket and the transport client (socket.rs, transport.rs) *)

Slots == {"on_open", "on_close", "on_packet", "on_data", "on_error"}
Functions == {"f"}

Urls == {"http://localhost:4200", "localhost"}
\* Url::parse(address + query_path) is Ok
UrlParses(addr) == addr = "http://localhost:4200"

\* The handshake request's outcome: a network error, or the response text, whose
\* first token is its first character.
HandshakeJson == [k |-> "h", s |-> "sid"]
NetError == [ok |-> FALSE, text |-> <<>>]
Response(text) == [ok |-> TRUE, text |-> text]
HttpOutcomes ==
    { NetError,
      Response(<<W("0"), HandshakeJson>>),   \* 0{"sid":...}
      Response(<<W("4"), HandshakeJson>>),   \* 4{"sid":...}
      Response(<<W("0"), W("null")>>),       \* 0null
      Response(<<W("0"), W("oops")>>) }      \* 0oops

\* serde_json::from_str::<Option<HandshakeData>>(text): [ok, val].
HandshakeFromStr(text) ==
    IF text = <<HandshakeJson>> THEN [ok |-> TRUE, val |-> Some([sid |-> "sid"])]
    ELSE IF text = <<W("null")>> THEN [ok |-> TRUE, val |-> None]
    ELSE [ok |-> FALSE, val |-> None]

\* TransportClient::open: the result and the client's fields after it.
open(addr, http) ==
    LET same == [result |-> "Ok", address |-> address,
                 connection_data |-> connection_data, connected |-> connected,
                 on_open_called |-> FALSE]
    IN  IF connected THEN same
        ELSE IF ~UrlParses(addr) THEN [same EXCEPT !.result = "InvalidUrl"]
        ELSE IF ~http.ok
        THEN [same EXCEPT !.result = "ReqwestError", !.address = Some(addr)]
        ELSE LET parsed == HandshakeFromStr(Tail(http.text)) IN
             IF parsed.ok
             THEN [same EXCEPT !.address = Some(addr),
                               !.connection_data = parsed.val,
                               !.on_open_called = IsSome(callbacks["on_open"])]
             ELSE [same EXCEPT !.result = "HandshakeError", !.address = Some(addr)]

EnginePackets ==
    { [packet_id |-> "Message", data |-> <<72, 105>>],
      [packet_id |-> "Close", data |-> <<>>],
      [packet_id |-> "Pong", data |-> <<>>] }
Attachments == {<<>>, <<1, 2, 3>>}

\* The record of a call on the socket: its name, argument and result, and what the
\* socket was as the call was made.
Op(name, result, arg) ==
    [op |-> name, result |-> result, arg |-> arg,
     before |-> [callbacks |-> callbacks, connected |-> connected,
                 handed |-> Len(transport_log), requests |-> Len(requests)]]

\* The threads that call the EngineSocket, each on a clone of it. A call first
\* reads the connected flag under the read lock, releases the lock and then
\* acts; read is what the flag read.
Callers == {"t1", "t2"}
Idle == [pc |-> "idle", op |-> "none", arg |-> <<>>, read |-> FALSE]
Checked(name, arg, read) == [pc |-> "checked", op |-> name, arg |-> arg, read |-> read]
\* The threads that register callbacks.
Registrars == {"t1"}
InCall(name) == {t \in Callers : callers[t].op = name}

\* The record of a call of thread t as it returns.
OpOf(t, name, result, arg, read) ==
    [op |-> name, result |-> result, arg |-> arg,
     before |-> [callbacks |-> callbacks, connected |-> read,
                 handed |-> Len(transport_log), requests |-> Len(requests)]]

EngineInit ==
    /\ connected = FALSE
    /\ callbacks = [s \in Slots |-> None]
    /\ address = None
    /\ connection_data = None
    /\ threads = 0
    /\ transport_log = <<>>
    /\ open_calls = 0
    /\ opened = FALSE
    /\ lastOp = [op |-> "new", result |-> "Ok", arg |-> <<>>,
                 before |-> [callbacks |-> [s \in Slots |-> None],
                             connected |-> FALSE, handed |-> 0, requests |-> 0]]
    /\ callers = [t \in Callers |-> Idle]

\* EngineSocket::is_connected
is_connected == connected

\* TransportClient::open called on the client itself.
TransportOpen ==
    \E addr \in Urls, http \in HttpOutcomes :
        LET r == open(addr, http) IN
        /\ open_calls < MaxOpens
        /\ address' = r.address
        /\ connection_data' = r.connection_data
        /\ connected' = r.connected
        /\ open_calls' = open_calls + (IF r.on_open_called THEN 1 ELSE 0)
        /\ opened' = (opened \/ r.result = "Ok")
        /\ lastOp' = Op("open", r.result, <<addr, http>>)
        /\ UNCHANGED <<callbacks, threads, transport_log, callers>>
        /\ UNCHANGED <<clientVars, wsVars, sessVars, pollVars, builderVars>>

\* The open of the transport client the EngineSocket holds
\* (engineio::transport::TransportClient::open), after the handshake of the
\* specification: the handshake request is made; when its first record is an
\* OPEN packet with the handshake JSON the session data is stored and the client
\* is connected, and otherwise an error is returned and nothing is stored. What
\* an open of a connected client does is not stated: with again false it returns
\* Ok and leaves the client as it is, with again true it makes the handshake as
\* the open of a client that is not connected does.
engine_open(addr, http, again) ==
    LET same == [result |-> "Ok", address |-> address,
                 connection_data |-> connection_data, connected |-> connected,
                 on_open_called |-> FALSE]
    IN  IF connected /\ ~again THEN same
        ELSE IF ~UrlParses(addr) THEN [same EXCEPT !.result = "InvalidUrl"]
        ELSE IF ~http.ok THEN [same EXCEPT !.result = "ReqwestError"]
        ELSE IF http.text = <<W("0"), HandshakeJson>>
        THEN [same EXCEPT !.address = Some(addr),
                          !.connection_data = Some([sid |-> "sid"]),
                          !.connected = TRUE,
                          !.on_open_called = IsSome(callbacks["on_open"])]
        ELSE [same EXCEPT !.result = "HandshakeError"]

\* The loop of a thread spawned by bind: whether it is still polling, the
\* poll_cycle calls it has made and what the last one returned.
Spawned == [state |-> "polling", cycles |-> 0, last |-> "none"]

\* A thread in bind whose open has returned Ok and whose loop is not spawned yet.
Opened(arg, read) == [pc |-> "opened", op |-> "bind", arg |-> arg, read |-> read]

\* bind going on to open the transport whatever the flag reads.
bind_check_Unguarded(t, addr) ==
    /\ callers[t] = Idle
    /\ threads + Cardinality(InCall("bind")) < MaxThreads
    /\ callers' = [callers EXCEPT ![t] = Checked("bind", <<addr>>, is_connected)]
    /\ UNCHANGED <<connected, callbacks, address, connection_data, threads,
                   transport_log, open_calls, opened, lastOp>>
    /\ UNCHANGED <<clientVars, wsVars, sessVars, pollVars, builderVars>>

\* EngineSocket::bind, the test of the flag: the read guard is dropped as the
\* test ends.
bind_check(t, addr) ==
    /\ callers[t] = Idle
    /\ threads + Cardinality(InCall("bind")) < MaxThreads
    /\ IF is_connected
       THEN /\ lastOp' = OpOf(t, "bind", "IllegalActionAfterOpen", <<addr>>, TRUE)
            /\ UNCHANGED callers
       ELSE /\ callers' = [callers EXCEPT ![t] = Checked("bind", <<addr>>, FALSE)]
            /\ UNCHANGED lastOp
    /\ UNCHANGED <<connected, callbacks, address, connection_data, threads,
                   transport_log, open_calls, opened>>
    /\ UNCHANGED <<clientVars, wsVars, sessVars, pollVars, builderVars>>

\* EngineSocket::bind, the open of the transport under the write lock, which is
\* released as open returns: an error is returned to the caller, and after Ok
\* the thread goes on to spawn the loop.
bind_open(t, http, again) ==
    /\ callers[t].pc = "checked"
    /\ callers[t].op = "bind"
    /\ LET addr == callers[t].arg[1]
           r == engine_open(addr, http, again)
       IN  /\ address' = r.address
           /\ connection_data' = r.connection_data
           /\ connected' = r.connected
           /\ open_calls' = open_calls + (IF r.on_open_called THEN 1 ELSE 0)
           /\ IF r.result = "Ok"
              THEN /\ callers' = [callers EXCEPT
                                     ![t] = Opened(<<addr, http>>, callers[t].read)]
                   /\ UNCHANGED lastOp
              ELSE /\ callers' = [callers EXCEPT ![t] = Idle]
                   /\ lastOp' = OpOf(t, "bind", r.result, <<addr, http>>,
                                     callers[t].read)
    /\ UNCHANGED <<callbacks, threads, transport_log, opened>>
    /\ UNCHANGED <<clientVars, wsVars, sessVars, pollVars, builderVars>>

\* EngineSocket::bind after open returned Ok: the thread of the poll loop is
\* spawned and bind returns Ok.
bind_spawn(t) ==
    /\ callers[t].pc = "opened"
    /\ threads' = threads + 1
    /\ poll_loop' = Append(poll_loop, Spawned)
    /\ opened' = TRUE
    /\ lastOp' = OpOf(t, "bind", "Ok", callers[t].arg, callers[t].read)
    /\ callers' = [callers EXCEPT ![t] = Idle]
    /\ UNCHANGED <<connected, callbacks, address, connection_data, transport_log,
                   open_calls>>
    /\ UNCHANGED <<clientVars, wsVars, sessVars, requests, delivered, builderVars>>

\* EngineSocket::bind
Bind ==
    \/ \E t \in Callers, addr \in Urls : bind_check(t, addr)
    \/ \E t \in Callers, http \in HttpOutcomes, again \in BOOLEAN :
          bind_open(t, http, again)
    \/ \E t \in Callers : bind_spawn(t)

\* TransportClient::emit: its result for the POST's status.
transport_emit(status) ==
    IF connected THEN "ActionBeforeOpen"
    ELSE IF ~IsSome(connection_data) \/ ~IsSome(address) THEN "panic"
    ELSE IF status # 200 THEN "HttpError"
    ELSE "Ok"

Statuses == {200, 500}

\* The emit of the transport client the EngineSocket holds
\* (engineio::transport::TransportClient::emit): the result for the status of
\* the request that carries the packet.
engine_transport_emit(status) == IF status = 200 THEN "Ok" ELSE "HttpError"

\* An HTTP request: the method and the packets of the payload it carries.
Post(packets) == [method |-> "POST", body |-> packets]
Get == [method |-> "GET", body |-> <<>>]

\* The requests after a TransportClient::emit of pkt that returned result: the
\* POST is made once the connected test and the two unwraps are passed.
EmitRequests(result, pkt) ==
    IF result \in {"Ok", "HttpError"} THEN Append(requests, Post(<<pkt>>))
    ELSE requests

\* What emit and emit_binary_attachment hand to the transport's emit; the
\* transport_log holds the calls in the order they reached it.
HandedToEmit(name, arg) ==
    IF name = "emit" THEN [packet |-> arg, is_binary_att |-> FALSE]
    ELSE [packet |-> [packet_id |-> "Message", data |-> arg], is_binary_att |-> TRUE]

\* A thread inside the transport's emit: the call it makes and the number of
\* packets handed to the transport before its own.
InTransport(name, arg, read) ==
    [pc |-> "in_transport", op |-> name, arg |-> arg, read |-> read,
     handed |-> Len(transport_log)]

\* The calls of emit and emit_binary_attachment that have passed the test of the
\* flag and have not returned.
EmitsInFlight ==
    {t \in Callers : /\ callers[t].op \in {"emit", "emit_binary_attachment"}
                     /\ callers[t].pc = "checked"}

\* The call going on to the transport's emit whatever the flag reads.
engine_emit_check_Unchecked(t, name, arg) ==
    /\ callers[t] = Idle
    /\ Len(transport_log) + Cardinality(EmitsInFlight) < MaxHanded
    /\ callers' = [callers EXCEPT ![t] = Checked(name, <<arg>>, is_connected)]
    /\ UNCHANGED <<connected, callbacks, address, connection_data, threads,
                   transport_log, open_calls, opened, lastOp>>
    /\ UNCHANGED <<clientVars, wsVars, sessVars, pollVars, builderVars>>

\* EngineSocket::emit and EngineSocket::emit_binary_attachment, the test of
\* is_connected(), whose read guard is dropped as it returns: with the flag
\* false the call returns ActionBeforeOpen.
engine_emit_check(t, name, arg) ==
    /\ callers[t] = Idle
    /\ Len(transport_log) + Cardinality(EmitsInFlight) < MaxHanded
    /\ IF ~is_connected
       THEN /\ lastOp' = OpOf(t, name, "ActionBeforeOpen", <<arg>>, FALSE)
            /\ UNCHANGED callers
       ELSE /\ callers' = [callers EXCEPT ![t] = Checked(name, <<arg>>, TRUE)]
            /\ UNCHANGED lastOp
    /\ UNCHANGED <<connected, callbacks, address, connection_data, threads,
                   transport_log, open_calls, opened>>
    /\ UNCHANGED <<clientVars, wsVars, sessVars, pollVars, builderVars>>

\* EngineSocket::emit and EngineSocket::emit_binary_attachment after the test:
\* the read lock of transport_client is taken again and the transport's emit is
\* called with the packet and the flag is_binary_att; the thread is then in the
\* request the transport's emit blocks on.
engine_emit_hand(t, name) ==
    /\ callers[t].pc = "checked"
    /\ callers[t].op = name
    /\ callers' = [callers EXCEPT
                      ![t] = InTransport(name, callers[t].arg, callers[t].read)]
    /\ transport_log' = Append(transport_log, HandedToEmit(name, callers[t].arg[1]))
    /\ UNCHANGED <<connected, callbacks, address, connection_data, threads,
                   open_calls, opened, lastOp>>
    /\ UNCHANGED <<clientVars, wsVars, sessVars, pollVars, builderVars>>

\* EngineSocket::emit and EngineSocket::emit_binary_attachment: the transport's
\* emit returns, and the call returns its result.
engine_emit_return(t, name, status) ==
    /\ callers[t].pc = "in_transport"
    /\ callers[t].op = name
    /\ lastOp' = [OpOf(t, name, engine_transport_emit(status), callers[t].arg,
                       callers[t].read)
                     EXCEPT !.before.handed = callers[t].handed]
    /\ callers' = [callers EXCEPT ![t] = Idle]
    /\ UNCHANGED <<connected, callbacks, address, connection_data, threads,
                   transport_log, open_calls, opened>>
    /\ UNCHANGED <<clientVars, wsVars, sessVars, pollVars, builderVars>>

Emit ==
    \/ \E t \in Callers, pkt \in EnginePackets : engine_emit_check(t, "emit", pkt)
    \/ \E t \in Callers : engine_emit_hand(t, "emit")
    \/ \E t \in Callers, status \in Statuses : engine_emit_return(t, "emit", status)

EmitBinaryAttachment ==
    \/ \E t \in Callers, attachment \in Attachments :
          engine_emit_check(t, "emit_binary_attachment", attachment)
    \/ \E t \in Callers : engine_emit_hand(t, "emit_binary_attachment")
    \/ \E t \in Callers, status \in Statuses :
          engine_emit_return(t, "emit_binary_attachment", status)

\* The set_on_open .. set_on_error of the transport client the EngineSocket
\* holds (engineio::transport::TransportClient): the callbacks after function
\* was stored in slot, the table being written before the connection.
set_on(slot, function) == [callbacks EXCEPT ![slot] = Some(function)]

\* A registration going on to store the callback whatever the flag reads.
register_check_Unguarded(t, slot, function) ==
    /\ callers[t] = Idle
    /\ callers' = [callers EXCEPT ![t] = Checked(slot, <<function>>, is_connected)]
    /\ UNCHANGED <<connected, callbacks, address, connection_data, threads,
                   transport_log, open_calls, opened, lastOp>>
    /\ UNCHANGED <<clientVars, wsVars, sessVars, pollVars, builderVars>>

\* EngineSocket::on_open, on_close, on_packet, on_data, on_error: the test of
\* is_connected(), whose read guard is dropped as it returns.
register_check(t, slot, function) ==
    /\ callers[t] = Idle
    /\ IF is_connected
       THEN /\ lastOp' = OpOf(t, slot, "IllegalActionAfterOpen", <<function>>, TRUE)
            /\ UNCHANGED callers
       ELSE /\ callers' = [callers EXCEPT ![t] = Checked(slot, <<function>>, FALSE)]
            /\ UNCHANGED lastOp
    /\ UNCHANGED <<connected, callbacks, address, connection_data, threads,
                   transport_log, open_calls, opened>>
    /\ UNCHANGED <<clientVars, wsVars, sessVars, pollVars, builderVars>>

\* EngineSocket::on_open, on_close, on_packet, on_data, on_error after the test:
\* the transport's set_on_.. is called under the write lock, and Ok is returned.
register_set(t, slot) ==
    /\ callers[t].pc = "checked"
    /\ callers[t].op = slot
    /\ lastOp' = OpOf(t, slot, "Ok", callers[t].arg, callers[t].read)
    /\ callbacks' = set_on(slot, callers[t].arg[1])
    /\ callers' = [callers EXCEPT ![t] = Idle]
    /\ UNCHANGED <<connected, address, connection_data, threads, transport_log,
                   open_calls, opened>>
    /\ UNCHANGED <<clientVars, wsVars, sessVars, pollVars, builderVars>>

\* The two steps of a registration in slot.
register(slot) ==
    \/ \E t \in Registrars, function \in Functions : register_check(t, slot, function)
    \/ \E t \in Registrars : register_set(t, slot)

OnOpen == register("on_open")
OnClose == register("on_close")
OnPacket == register("on_packet")
OnData == register("on_data")
OnError == register("on_error")

----------------------------------------------------------------------------
(* TransportClient::emit and TransportClient::poll called on the client    *)
(* itself, and the poll loop of bind (transport.rs, socket.rs).            *)

PollInit ==
    /\ requests = <<>>
    /\ delivered = <<>>
    /\ poll_loop = <<>>

\* TransportClient::emit
TransportEmit ==
    \E pkt \in {[packet_id |-> "Message", data |-> <<72, 105>>]}, status \in Statuses :
        /\ Len(transport_log) < MaxRequests
        /\ Len(requests) < MaxRequests
        /\ transport_log' =
              Append(transport_log, [packet |-> pkt, is_binary_att |-> FALSE])
        /\ requests' = EmitRequests(transport_emit(status), pkt)
        /\ lastOp' = Op("transport_emit", transport_emit(status), <<pkt>>)
        /\ UNCHANGED <<connected, callbacks, address, connection_data, threads,
                       open_calls, opened, callers>>
        /\ UNCHANGED <<clientVars, wsVars, sessVars, delivered, poll_loop, builderVars>>

\* A callback field of the client is assigned (socket.on_data = ..).
set_field(slot, function) ==
    /\ callbacks' = [callbacks EXCEPT ![slot] = Some(function)]
    /\ lastOp' = Op(slot, "Ok", <<function>>)
    /\ UNCHANGED <<connected, address, connection_data, threads, transport_log,
                   open_calls, opened, callers>>
    /\ UNCHANGED <<clientVars, wsVars, sessVars, pollVars, builderVars>>

SetCallback == \E slot \in {"on_open", "on_packet", "on_data"} : set_field(slot, "f")

\* The packets decode_payload finds in the response of a poll.
PolledPackets ==
    { [packet_id |-> "Message", data |-> <<72, 105>>],
      [packet_id |-> "Ping", data |-> <<112>>],
      [packet_id |-> "Noop", data |-> <<>>] }

\* The outcome of a poll's GET: a network error or the decoded packets.
PollFailed == [ok |-> FALSE, packets |-> <<>>]
Polled(packets) == [ok |-> TRUE, packets |-> packets]
PollOutcomes ==
    {PollFailed} \cup {Polled(<<a>>) : a \in PolledPackets}
        \cup {Polled(<<a, b>>) : a \in PolledPackets, b \in PolledPackets}

\* One invocation of a callback of the transport client.
SlotCall(slot, arg) == [slot |-> slot, function |-> Unwrap(callbacks[slot]), arg |-> arg]

\* The loop of poll over the decoded packets: on_packet for each packet, on_data
\* for a Message, nothing more for a Noop; every other packet runs into todo!().
RECURSIVE PollWalk(_)
PollWalk(packets) ==
    IF packets = <<>> THEN [result |-> "Ok", calls |-> <<>>]
    ELSE LET pkt == Head(packets)
             seen == IF IsSome(callbacks["on_packet"])
                     THEN <<SlotCall("on_packet", pkt)>> ELSE <<>>
             rest == PollWalk(Tail(packets))
         IN  IF pkt.packet_id = "Message"
             THEN [result |-> rest.result,
                   calls |-> seen
                             \o (IF IsSome(callbacks["on_data"])
                                 THEN <<SlotCall("on_data", pkt.data)>> ELSE <<>>)
                             \o rest.calls]
             ELSE IF pkt.packet_id = "Noop"
             THEN [result |-> rest.result, calls |-> seen \o rest.calls]
             ELSE [result |-> "panic_todo", calls |-> seen]

\* TransportClient::poll: its result, whether the GET was made and the callbacks
\* it invoked.
transport_poll(resp) ==
    IF connected
    THEN [result |-> "ActionBeforeOpen", requested |-> FALSE, calls |-> <<>>]
    ELSE IF ~IsSome(connection_data) \/ ~IsSome(address)
    THEN [result |-> "panic", requested |-> FALSE, calls |-> <<>>]
    ELSE IF ~resp.ok
    THEN [result |-> "ReqwestError", requested |-> TRUE, calls |-> <<>>]
    ELSE LET w == PollWalk(resp.packets) IN
         [result |-> w.result, requested |-> TRUE, calls |-> w.calls]

TransportPoll ==
    \E resp \in PollOutcomes :
        LET r == transport_poll(resp) IN
        /\ Len(requests) < MaxRequests
        /\ requests' = IF r.requested THEN Append(requests, Get) ELSE requests
        /\ delivered' = r.calls
        /\ lastOp' = Op("poll", r.result, <<resp>>)
        /\ UNCHANGED <<connected, callbacks, address, connection_data, threads,
                       transport_log, open_calls, opened, callers>>
        /\ UNCHANGED <<clientVars, wsVars, sessVars, poll_loop, builderVars>>

\* What poll_cycle returns to the loop of the thread.
CycleOutcomes == {"Ok", "HttpError", "ReqwestError", "ActionBeforeOpen", "InvalidPacket"}

\* A loop that stops on Ok and polls again after every error.
LoopAfter_Retry(outcome) == IF outcome = "Ok" THEN "stopped" ELSE "polling"

\* The loop of the thread after poll_cycle returned outcome.
LoopAfter(outcome) ==
    IF outcome = "Ok" THEN "stopped"
    ELSE IF outcome \in {"HttpError", "ReqwestError"} THEN "panicked"
    ELSE "polling"

\* One turn of the loop of thread i: poll_cycle is called and returns.
poll_cycle_turn(i, outcome) ==
    /\ poll_loop[i].state = "polling"
    /\ poll_loop[i].cycles < MaxCycles
    /\ poll_loop' = [poll_loop EXCEPT ![i] = [state |-> LoopAfter(outcome),
                                               cycles |-> @.cycles + 1,
                                               last |-> outcome]]
    /\ UNCHANGED <<clientVars, engineVars, wsVars, sessVars, requests, delivered,
                   builderVars>>

PollCycle ==
    \E i \in 1..Len(poll_loop), outcome \in CycleOutcomes : poll_cycle_turn(i, outcome)

----------------------------------------------------------------------------
(* The WebSocket transport (engineio/src/async_transports/mod.rs).         *)
(* Bytes are sequences of characters; "xFF" is a byte that is not UTF-8.   *)

\* PacketId as u8, written as the character that encodes it.
IdChar(packet_id) ==
    CASE packet_id = "Open" -> "0"
      [] packet_id = "Close" -> "1"
      [] packet_id = "Ping" -> "2"
      [] packet_id = "Pong" -> "3"
      [] packet_id = "Message" -> "4"
      [] packet_id = "Upgrade" -> "5"
      [] packet_id = "Noop" -> "6"

\* Bytes::from(Packet::new(packet_id, data))
Encode(packet_id, data) == <<IdChar(packet_id)>> \o data

\* std::str::from_utf8(bytes) is Ok
IsUtf8(bytes) == \A i \in 1..Len(bytes) : bytes[i] # "xFF"

\* tungstenite::Message
MsgText(bytes) == [kind |-> "text", data |-> bytes]
MsgBinary(bytes) == [kind |-> "binary", data |-> bytes]

\* The tasks that call the transport: one upgrade, two emitters, one poller.
Emitters == {"e1", "e2"}
WsTasks == {"upgrade", "poll"} \cup Emitters

\* What the callers hand to emit.
EmitData == { <<"4", "h", "i">>, <<"4", "xFF">> }

\* What receiver.next().await gives: the end of the stream, an error or a message.
InNone == [tag |-> "None", msg |-> <<>>]
InErr == [tag |-> "Err", msg |-> <<>>]
InMsg(m) == [tag |-> "Msg", msg |-> <<m>>]
InMessages ==
    { MsgText(<<"3", "probe">>), MsgBinary(<<"3", "probe">>), MsgText(<<"3">>),
      MsgBinary(<<"h", "i">>) }
Inbound == {InNone, InErr} \cup {InMsg(m) : m \in InMessages}

\* A frame on the wire: the message, the task that wrote it and the number of
\* the task's call that wrote it.
Frame(m, t, n) == [kind |-> m.kind, data |-> m.data, by |-> t, n |-> n]

\* The points a send waits at: for the stream to be ready for the frame a
\* failed send left in the slot, for that frame to be flushed, for the stream to
\* be ready for the frame of the send, and for the frame to be flushed.
NotSending == [t \in WsTasks |-> "none"]

WsInit ==
    /\ sender = "free"
    /\ receiver = "free"
    /\ wire = <<>>
    /\ sink = [slot |-> None, at |-> NotSending]
    /\ tasks = [t \in WsTasks |-> [pc |-> "idle", calls |-> <<>>]]
    /\ probe = <<>>

\* The tasks whose sender.send(..) is in progress.
writing == {t \in WsTasks : sink.at[t] # "none"}

\* The call a task is making, and the task's state as the call returns.
Cur(t) == tasks[t].calls[Len(tasks[t].calls)]
Started(t, call) ==
    [tasks EXCEPT ![t] = [pc |-> "lock", calls |-> Append(@.calls, call)]]
At(t, pc_) == [tasks EXCEPT ![t].pc = pc_]
Returned(t, result) ==
    [tasks EXCEPT ![t] = [pc |-> "idle",
                          calls |-> [@.calls EXCEPT ![Len(@.calls)].result = result]]]

\* A MutexGuard dropped: the mutex is free again if the task held it.
Unlocked(mutex, t) == IF mutex = t THEN "free" ELSE mutex

\* The frame put in front of the frames handed over before.
WireAfter_Front(frame) == <<frame>> \o wire

\* The stream's start_send(frame): the frame follows the frames handed over
\* before.
WireAfter(frame) == Append(wire, frame)

\* sender.send(frame) is called by task t (SinkExt::send on the SplitSink): an
\* empty slot takes the frame, and a frame that a failed send left in the slot
\* is flushed before.
SinkBegun(t, frame) ==
    IF sink.slot = None
    THEN [slot |-> Some(frame), at |-> [sink.at EXCEPT ![t] = "ready"]]
    ELSE [sink EXCEPT !.at[t] = "stale_ready"]

\* The wire after the frame in the slot was taken and handed to the stream.
SlotFlushed == IF sink.slot = None THEN wire ELSE WireAfter(Unwrap(sink.slot))

\* The sink after the stream let the send of task t go on by one step: the frame
\* in the slot is handed over once the stream is ready, and the frame of the
\* send enters the slot once the frame before it is flushed.
SinkPassed(t, frame) ==
    CASE sink.at[t] = "stale_ready" ->
            [slot |-> None, at |-> [sink.at EXCEPT ![t] = "stale_flush"]]
      [] sink.at[t] = "stale_flush" ->
            [slot |-> Some(frame), at |-> [sink.at EXCEPT ![t] = "ready"]]
      [] sink.at[t] = "ready" ->
            [slot |-> None, at |-> [sink.at EXCEPT ![t] = "flush"]]

\* The wire after that step.
WirePassed(t) == IF sink.at[t] \in {"stale_ready", "ready"} THEN SlotFlushed ELSE wire

\* The sink as the send of task t returns: a frame in the slot stays there.
SinkLeft(t) == [sink EXCEPT !.at[t] = "none"]

\* What the stream answers to a step of a send: it lets the step pass, it is not
\* ready (poll_ready or poll_flush fails), or its start_send fails.
SinkOutcomes == {"Ok", "NotReady", "Rejected"}

\* The sink as the send of task t fails: a frame the stream was not ready for
\* stays in the slot, and a frame whose start_send failed was taken from the
\* slot before and is dropped.
SinkFailed(t, outcome) ==
    IF outcome = "Rejected" /\ sink.at[t] \in {"stale_ready", "ready"}
    THEN [slot |-> None, at |-> [sink.at EXCEPT ![t] = "none"]]
    ELSE SinkLeft(t)

PingProbe == MsgText(Encode("Ping", <<"probe">>))
UpgradePacket == MsgText(Encode("Upgrade", <<>>))

\* Any answer taken for the probe's.
ProbeAnswered_Any(msg) == TRUE

\* upgrade's test of the probe's answer (the negation of mod.rs:53).
ProbeAnswered(msg) == msg.data = Encode("Pong", <<"probe">>)

\* upgrade: self.receiver.lock().await
upgrade_lock_receiver ==
    /\ tasks["upgrade"] = [pc |-> "idle", calls |-> <<>>]
    /\ receiver = "free"
    /\ receiver' = "upgrade"
    /\ tasks' = At("upgrade", "receiver_locked")
    /\ UNCHANGED <<sender, wire, sink, probe>>
    /\ UNCHANGED <<clientVars, engineVars, sessVars, pollVars, builderVars>>

\* upgrade going on with the receiver mutex alone.
upgrade_lock_sender_Skipped ==
    /\ tasks["upgrade"].pc = "receiver_locked"
    /\ tasks' = [tasks EXCEPT !["upgrade"] =
                    [pc |-> "sender_locked", calls |-> <<[result |-> "pending"]>>]]
    /\ UNCHANGED <<sender, receiver, wire, sink, probe>>
    /\ UNCHANGED <<clientVars, engineVars, sessVars, pollVars, builderVars>>

\* upgrade: self.sender.lock().await
upgrade_lock_sender ==
    /\ tasks["upgrade"].pc = "receiver_locked"
    /\ sender = "free"
    /\ sender' = "upgrade"
    /\ tasks' = [tasks EXCEPT !["upgrade"] =
                    [pc |-> "sender_locked", calls |-> <<[result |-> "pending"]>>]]
    /\ UNCHANGED <<receiver, wire, sink, probe>>
    /\ UNCHANGED <<clientVars, engineVars, sessVars, pollVars, builderVars>>

\* upgrade returns: both guards are dropped.
upgrade_return(result) ==
    /\ tasks' = [tasks EXCEPT !["upgrade"] =
                    [pc |-> "done", calls |-> <<[result |-> result]>>]]
    /\ sender' = Unlocked(sender, "upgrade")
    /\ receiver' = Unlocked(receiver, "upgrade")

\* upgrade: sender.send of the PING "probe" is called (mod.rs:42-46).
upgrade_send_ping ==
    /\ tasks["upgrade"].pc = "sender_locked"
    /\ sink' = SinkBegun("upgrade", Frame(PingProbe, "upgrade", 1))
    /\ tasks' = At("upgrade", "sending_ping")
    /\ UNCHANGED <<sender, receiver, wire, probe>>
    /\ UNCHANGED <<clientVars, engineVars, sessVars, pollVars, builderVars>>

\* upgrade: the send of the PING goes on by one step, or fails there and its
\* error is returned by the ? operator (mod.rs:46).
upgrade_ping_flush(outcome) ==
    /\ tasks["upgrade"].pc = "sending_ping"
    /\ sink.at["upgrade"] \in {"stale_ready", "stale_flush", "ready"}
    /\ IF outcome = "Ok"
       THEN /\ sink' = SinkPassed("upgrade", Frame(PingProbe, "upgrade", 1))
            /\ wire' = WirePassed("upgrade")
            /\ UNCHANGED <<sender, receiver, tasks>>
       ELSE /\ sink' = SinkFailed("upgrade", outcome)
            /\ upgrade_return("WebsocketError")
            /\ UNCHANGED wire
    /\ UNCHANGED probe
    /\ UNCHANGED <<clientVars, engineVars, sessVars, pollVars, builderVars>>

\* upgrade: the send of the PING completes; its error is returned by the ?
\* operator (mod.rs:46).
upgrade_ping_sent(ok) ==
    /\ tasks["upgrade"].pc = "sending_ping"
    /\ sink.at["upgrade"] = "flush"
    /\ sink' = SinkLeft("upgrade")
    /\ IF ok
       THEN /\ tasks' = At("upgrade", "probing")
            /\ UNCHANGED <<sender, receiver>>
       ELSE upgrade_return("WebsocketError")
    /\ UNCHANGED <<wire, probe>>
    /\ UNCHANGED <<clientVars, engineVars, sessVars, pollVars, builderVars>>

\* upgrade: receiver.next().await and the test of what it gives.
upgrade_next(in) ==
    /\ tasks["upgrade"].pc = "probing"
    /\ probe' = Append(probe, in)
    /\ IF in.tag = "None" THEN upgrade_return("IllegalWebsocketUpgrade")
       ELSE IF in.tag = "Err" THEN upgrade_return("WebsocketError")
       ELSE IF ~ProbeAnswered(in.msg[1]) THEN upgrade_return("InvalidPacket")
       ELSE /\ tasks' = At("upgrade", "answered")
            /\ UNCHANGED <<sender, receiver>>
    /\ UNCHANGED <<wire, sink>>
    /\ UNCHANGED <<clientVars, engineVars, sessVars, pollVars, builderVars>>

\* upgrade: sender.send of the UPGRADE packet is called (mod.rs:57-61).
upgrade_send_upgrade ==
    /\ tasks["upgrade"].pc = "answered"
    /\ sink' = SinkBegun("upgrade", Frame(UpgradePacket, "upgrade", 1))
    /\ tasks' = At("upgrade", "sending_upgrade")
    /\ UNCHANGED <<sender, receiver, wire, probe>>
    /\ UNCHANGED <<clientVars, engineVars, sessVars, pollVars, builderVars>>

\* upgrade: the send of the UPGRADE packet goes on by one step, or fails there
\* and its error is returned by the ? operator (mod.rs:61).
upgrade_upgrade_flush(outcome) ==
    /\ tasks["upgrade"].pc = "sending_upgrade"
    /\ sink.at["upgrade"] \in {"stale_ready", "stale_flush", "ready"}
    /\ IF outcome = "Ok"
       THEN /\ sink' = SinkPassed("upgrade", Frame(UpgradePacket, "upgrade", 1))
            /\ wire' = WirePassed("upgrade")
            /\ UNCHANGED <<sender, receiver, tasks>>
       ELSE /\ sink' = SinkFailed("upgrade", outcome)
            /\ upgrade_return("WebsocketError")
            /\ UNCHANGED wire
    /\ UNCHANGED probe
    /\ UNCHANGED <<clientVars, engineVars, sessVars, pollVars, builderVars>>

\* upgrade: the send of the UPGRADE packet completes and upgrade returns, Ok or
\* the send's error (mod.rs:61-63).
upgrade_upgrade_sent(ok) ==
    /\ tasks["upgrade"].pc = "sending_upgrade"
    /\ sink.at["upgrade"] = "flush"
    /\ sink' = SinkLeft("upgrade")
    /\ upgrade_return(IF ok THEN "Ok" ELSE "WebsocketError")
    /\ UNCHANGED <<wire, probe>>
    /\ UNCHANGED <<clientVars, engineVars, sessVars, pollVars, builderVars>>

\* emit is called by task t.
ws_emit_start(t, data, is_binary_att) ==
    /\ tasks[t].pc = "idle"
    /\ tasks' = Started(t, [data |-> data, is_binary_att |-> is_binary_att,
                            result |-> "pending"])
    /\ UNCHANGED <<sender, receiver, wire, sink, probe>>
    /\ UNCHANGED <<clientVars, engineVars, sessVars, pollVars, builderVars>>

\* emit going on without waiting for the sender mutex.
ws_emit_lock_NoWait(t) ==
    /\ tasks[t].pc = "lock"
    /\ tasks' = At(t, "locked")
    /\ UNCHANGED <<sender, receiver, wire, sink, probe>>
    /\ UNCHANGED <<clientVars, engineVars, sessVars, pollVars, builderVars>>

\* emit: self.sender.lock().await
ws_emit_lock(t) ==
    /\ tasks[t].pc = "lock"
    /\ sender = "free"
    /\ sender' = t
    /\ tasks' = At(t, "locked")
    /\ UNCHANGED <<receiver, wire, sink, probe>>
    /\ UNCHANGED <<clientVars, engineVars, sessVars, pollVars, builderVars>>

\* The frame of the call task t is making: a binary message for an attachment,
\* and a text message otherwise (mod.rs:69-73).
EmitFrame(t) ==
    Frame(IF Cur(t).is_binary_att THEN MsgBinary(Cur(t).data) ELSE MsgText(Cur(t).data),
          t, Len(tasks[t].calls))

\* emit: the message is built and sender.send(message) is called, or from_utf8
\* fails and emit returns the error.
ws_emit_message(t) ==
    /\ tasks[t].pc = "locked"
    /\ IF Cur(t).is_binary_att \/ IsUtf8(Cur(t).data)
       THEN /\ sink' = SinkBegun(t, EmitFrame(t))
            /\ tasks' = At(t, "sending")
            /\ UNCHANGED sender
       ELSE /\ tasks' = Returned(t, "Utf8Error")
            /\ sender' = Unlocked(sender, t)
            /\ UNCHANGED sink
    /\ UNCHANGED <<receiver, wire, probe>>
    /\ UNCHANGED <<clientVars, engineVars, sessVars, pollVars, builderVars>>

\* emit: the send goes on by one step, or fails there and emit returns the
\* error (mod.rs:75-77).
ws_emit_flush(t, outcome) ==
    /\ tasks[t].pc = "sending"
    /\ sink.at[t] \in {"stale_ready", "stale_flush", "ready"}
    /\ IF outcome = "Ok"
       THEN /\ sink' = SinkPassed(t, EmitFrame(t))
            /\ wire' = WirePassed(t)
            /\ UNCHANGED <<sender, tasks>>
       ELSE /\ sink' = SinkFailed(t, outcome)
            /\ tasks' = Returned(t, "WebsocketError")
            /\ sender' = Unlocked(sender, t)
            /\ UNCHANGED wire
    /\ UNCHANGED <<receiver, probe>>
    /\ UNCHANGED <<clientVars, engineVars, sessVars, pollVars, builderVars>>

\* emit returning a failed send with the sender guard kept.
ws_emit_sent_GuardKept(t, ok) ==
    /\ tasks[t].pc = "sending"
    /\ sink.at[t] = "flush"
    /\ sink' = SinkLeft(t)
    /\ tasks' = Returned(t, IF ok THEN "Ok" ELSE "WebsocketError")
    /\ sender' = IF ok THEN Unlocked(sender, t) ELSE sender
    /\ UNCHANGED <<receiver, wire, probe>>
    /\ UNCHANGED <<clientVars, engineVars, sessVars, pollVars, builderVars>>

\* emit: sender.send(message).await completes and emit returns.
ws_emit_sent(t, ok) ==
    /\ tasks[t].pc = "sending"
    /\ sink.at[t] = "flush"
    /\ sink' = SinkLeft(t)
    /\ tasks' = Returned(t, IF ok THEN "Ok" ELSE "WebsocketError")
    /\ sender' = Unlocked(sender, t)
    /\ UNCHANGED <<receiver, wire, probe>>
    /\ UNCHANGED <<clientVars, engineVars, sessVars, pollVars, builderVars>>

\* poll taking the sender mutex together with the receiver mutex.
ws_poll_lock_Both ==
    /\ tasks["poll"].pc = "idle"
    /\ Len(tasks["poll"].calls) < MaxPolls
    /\ receiver = "free"
    /\ sender = "free"
    /\ receiver' = "poll"
    /\ sender' = "poll"
    /\ tasks' = [tasks EXCEPT !["poll"] =
                    [pc |-> "next", calls |-> Append(@.calls, [result |-> "pending"])]]
    /\ UNCHANGED <<wire, sink, probe>>
    /\ UNCHANGED <<clientVars, engineVars, sessVars, pollVars, builderVars>>

\* poll: self.receiver.lock().await
ws_poll_lock ==
    /\ tasks["poll"].pc = "idle"
    /\ Len(tasks["poll"].calls) < MaxPolls
    /\ receiver = "free"
    /\ receiver' = "poll"
    /\ tasks' = [tasks EXCEPT !["poll"] =
                    [pc |-> "next", calls |-> Append(@.calls, [result |-> "pending"])]]
    /\ UNCHANGED <<sender, wire, sink, probe>>
    /\ UNCHANGED <<clientVars, engineVars, sessVars, pollVars, builderVars>>

\* poll's result for what receiver.next().await gives.
PollResult(in) ==
    IF in.tag = "None" THEN [tag |-> "IncompletePacket", bytes |-> <<>>]
    ELSE IF in.tag = "Err" THEN [tag |-> "WebsocketError", bytes |-> <<>>]
    ELSE IF in.msg[1].kind = "binary"
    THEN [tag |-> "Ok", bytes |-> <<IdChar("Message")>> \o in.msg[1].data]
    ELSE [tag |-> "Ok", bytes |-> in.msg[1].data]

\* poll: receiver.next().await returns and poll returns.
ws_poll_next(in) ==
    /\ tasks["poll"].pc = "next"
    /\ tasks' = Returned("poll", PollResult(in))
    /\ receiver' = Unlocked(receiver, "poll")
    /\ UNCHANGED <<sender, wire, sink, probe>>
    /\ UNCHANGED <<clientVars, engineVars, sessVars, pollVars, builderVars>>

Upgrade ==
    \/ upgrade_lock_receiver
    \/ upgrade_lock_sender
    \/ upgrade_send_ping
    \/ \E outcome \in SinkOutcomes : upgrade_ping_flush(outcome)
    \/ \E ok \in BOOLEAN : upgrade_ping_sent(ok)
    \/ \E in \in Inbound : upgrade_next(in)
    \/ upgrade_send_upgrade
    \/ \E outcome \in SinkOutcomes : upgrade_upgrade_flush(outcome)
    \/ \E ok \in BOOLEAN : upgrade_upgrade_sent(ok)

\* The steps of emit for task t, which makes at most max calls.
ws_emit(t, max) ==
    \/ \E data \in EmitData, is_binary_att \in BOOLEAN :
          Len(tasks[t].calls) < max /\ ws_emit_start(t, data, is_binary_att)
    \/ ws_emit_lock(t)
    \/ ws_emit_message(t)
    \/ \E outcome \in SinkOutcomes : ws_emit_flush(t, outcome)
    \/ \E ok \in BOOLEAN : ws_emit_sent(t, ok)

\* Tasks that emit concurrently.
WsEmit == \E t \in Emitters : ws_emit(t, MaxWsEmits)

\* One task that emits one packet after another, each emit awaited.
FifoEmit == ws_emit("e1", MaxFifoEmits)

WsPoll ==
    \/ ws_poll_lock
    \/ \E in \in Inbound : ws_poll_next(in)

----------------------------------------------------------------------------
(* The Client's session on its InnerSocket (client.rs:64-74, 135-143).     *)

SessInit ==
    /\ socket_log = <<>>
    /\ lastClientOp = ClientOp("new", "Ok", <<>>)
    /\ in_flight = {}

ConnectPacket == Packet("Connect", nsp, None, None, 0, None)
DisconnectPacket == Packet("Disconnect", nsp, None, None, 0, None)

\* A connect or a disconnect may start: the calls in progress have room for the
\* socket calls they go on to make.
SessionMayStart ==
    /\ Cardinality(Sessions) < MaxSessionCalls
    /\ Len(socket_log) + Cardinality(in_flight) + 2 <= MaxSocketCalls

\* socket_log with the call at place i returned.
ReturnedCall(i, result) == [socket_log EXCEPT ![i].result = result]

\* Client::connect: self.socket.connect() is called (client.rs:66).
connect_call ==
    /\ SessionMayStart
    /\ socket_log' = Append(socket_log, SocketCall("connect", None, "pending"))
    /\ in_flight' =
          in_flight \cup {InFlight("connect", 0, "connect", <<Len(socket_log) + 1>>)}
    /\ UNCHANGED lastClientOp
    /\ UNCHANGED <<clientVars, engineVars, wsVars, pollVars, builderVars>>

\* Client::connect going on to the send whatever socket.connect returned.
connect_socket_Unchecked(e, connected_) ==
    /\ e \in in_flight
    /\ e.op = "connect"
    /\ e.stage = "connect"
    /\ socket_log' = Append(ReturnedCall(e.made[1], connected_),
                            SocketCall("send", Some(ConnectPacket), "pending"))
    /\ in_flight' =
          (in_flight \ {e})
             \cup {InFlight("connect", 0, "send", Append(e.made, Len(socket_log) + 1))}
    /\ UNCHANGED lastClientOp
    /\ UNCHANGED <<clientVars, engineVars, wsVars, pollVars, builderVars>>

\* Client::connect: self.socket.connect().await? returns, its error returned by
\* the ? operator; on Ok the CONNECT packet is made and self.socket.send is called
\* (client.rs:66-71).
connect_socket(e, connected_) ==
    /\ e \in in_flight
    /\ e.op = "connect"
    /\ e.stage = "connect"
    /\ IF connected_ # "Ok"
       THEN /\ socket_log' = ReturnedCall(e.made[1], connected_)
            /\ lastClientOp' = ClientOp("connect", connected_, e.made)
            /\ in_flight' = in_flight \ {e}
       ELSE /\ socket_log' = Append(ReturnedCall(e.made[1], connected_),
                                    SocketCall("send", Some(ConnectPacket), "pending"))
            /\ in_flight' =
                  (in_flight \ {e})
                     \cup {InFlight("connect", 0, "send",
                                    Append(e.made, Len(socket_log) + 1))}
            /\ UNCHANGED lastClientOp
    /\ UNCHANGED <<clientVars, engineVars, wsVars, pollVars, builderVars>>

\* Client::connect: self.socket.send(open_packet).await? returns, and connect
\* returns its error or Ok(()) (client.rs:71-73).
connect_send(e, sent_) ==
    /\ e \in in_flight
    /\ e.op = "connect"
    /\ e.stage = "send"
    /\ socket_log' = ReturnedCall(e.made[2], sent_)
    /\ lastClientOp' = ClientOp("connect", sent_, e.made)
    /\ in_flight' = in_flight \ {e}
    /\ UNCHANGED <<clientVars, engineVars, wsVars, pollVars, builderVars>>

\* Client::disconnect closing the Engine.IO socket before it sends anything.
disconnect_call_CloseFirst ==
    /\ SessionMayStart
    /\ socket_log' = Append(socket_log, SocketCall("disconnect", None, "pending"))
    /\ in_flight' =
          in_flight \cup {InFlight("disconnect", 0, "send", <<Len(socket_log) + 1>>)}
    /\ UNCHANGED lastClientOp
    /\ UNCHANGED <<clientVars, engineVars, wsVars, pollVars, builderVars>>

\* Client::disconnect: the DISCONNECT packet is made and self.socket.send is
\* called (client.rs:136-139).
disconnect_call ==
    /\ SessionMayStart
    /\ socket_log' =
          Append(socket_log, SocketCall("send", Some(DisconnectPacket), "pending"))
    /\ in_flight' =
          in_flight \cup {InFlight("disconnect", 0, "send", <<Len(socket_log) + 1>>)}
    /\ UNCHANGED lastClientOp
    /\ UNCHANGED <<clientVars, engineVars, wsVars, pollVars, builderVars>>

\* Client::disconnect going on to close the Engine.IO socket whatever the send
\* returned.
disconnect_send_Unchecked(e, sent_) ==
    /\ e \in in_flight
    /\ e.op = "disconnect"
    /\ e.stage = "send"
    /\ socket_log' = Append(ReturnedCall(e.made[1], sent_),
                            SocketCall("disconnect", None, "pending"))
    /\ in_flight' =
          (in_flight \ {e})
             \cup {InFlight("disconnect", 0, "close",
                            Append(e.made, Len(socket_log) + 1))}
    /\ UNCHANGED lastClientOp
    /\ UNCHANGED <<clientVars, engineVars, wsVars, pollVars, builderVars>>

\* Client::disconnect: self.socket.send(disconnect_packet).await? returns, its
\* error returned by the ? operator; on Ok self.socket.disconnect is called
\* (client.rs:139-140).
disconnect_send(e, sent_) ==
    /\ e \in in_flight
    /\ e.op = "disconnect"
    /\ e.stage = "send"
    /\ IF sent_ # "Ok"
       THEN /\ socket_log' = ReturnedCall(e.made[1], sent_)
            /\ lastClientOp' = ClientOp("disconnect", sent_, e.made)
            /\ in_flight' = in_flight \ {e}
       ELSE /\ socket_log' = Append(ReturnedCall(e.made[1], sent_),
                                    SocketCall("disconnect", None, "pending"))
            /\ in_flight' =
                  (in_flight \ {e})
                     \cup {InFlight("disconnect", 0, "close",
                                    Append(e.made, Len(socket_log) + 1))}
            /\ UNCHANGED lastClientOp
    /\ UNCHANGED <<clientVars, engineVars, wsVars, pollVars, builderVars>>

\* Client::disconnect: self.socket.disconnect().await? returns, and disconnect
\* returns its error or Ok(()) (client.rs:140-142).
disconnect_close(e, disconnected_) ==
    /\ e \in in_flight
    /\ e.op = "disconnect"
    /\ e.stage = "close"
    /\ socket_log' = ReturnedCall(e.made[2], disconnected_)
    /\ lastClientOp' = ClientOp("disconnect", disconnected_, e.made)
    /\ in_flight' = in_flight \ {e}
    /\ UNCHANGED <<clientVars, engineVars, wsVars, pollVars, builderVars>>

ClientConnect ==
    \/ connect_call
    \/ \E e \in in_flight, connected_ \in SocketResults : connect_socket(e, connected_)
    \/ \E e \in in_flight, sent_ \in SocketResults : connect_send(e, sent_)

ClientDisconnect ==
    \/ disconnect_call
    \/ \E e \in in_flight, sent_ \in SocketResults : disconnect_send(e, sent_)
    \/ \E e \in in_flight, disconnected_ \in SocketResults :
          disconnect_close(e, disconnected_)

----------------------------------------------------------------------------
(* SocketBuilder (lib.rs:113-205).  A namespace is a sequence of           *)
(* characters.                                                             *)

\* The namespaces handed to set_namespace: "/", "/a", "/b", "a", "" and "a/".
NamespaceTexts ==
    { <<"/">>, <<"/", "a">>, <<"/", "b">>, <<"a">>, <<>>, <<"a", "/">> }

\* The events handed to on.
BuilderEvents == {"test", "error", "message"}

\* A test that finds the character anywhere in the text.
starts_with_Anywhere(text, c) == \E i \in 1..Len(text) : text[i] = c

\* str::starts_with(char)
starts_with(text, c) == Len(text) > 0 /\ text[1] = c

\* SocketBuilder::new: a socket for the namespace "/".
BuilderInit ==
    builder = [stage |-> "building", nsp |-> Some(<<"/">>), on |-> {}, calls |-> 0,
               last |-> [op |-> "new", result |-> "Ok", arg |-> <<>>]]

\* SocketBuilder::set_namespace: the builder is consumed, and handed back only
\* with Ok.
set_namespace(namespace) ==
    /\ builder.stage = "building"
    /\ builder.calls < MaxBuilderCalls
    /\ IF ~starts_with(namespace, "/")
       THEN builder' = [builder EXCEPT
                           !.stage = "dropped",
                           !.calls = @ + 1,
                           !.last = [op |-> "set_namespace",
                                     result |-> "IllegalNamespace",
                                     arg |-> namespace]]
       ELSE builder' = [builder EXCEPT
                           !.nsp = Some(namespace),
                           !.calls = @ + 1,
                           !.last = [op |-> "set_namespace", result |-> "Ok",
                                     arg |-> namespace]]
    /\ UNCHANGED <<clientVars, engineVars, wsVars, sessVars, pollVars>>

SetNamespace == \E namespace \in NamespaceTexts : set_namespace(namespace)

\* SocketBuilder::on
builder_on(event) ==
    /\ builder.stage = "building"
    /\ builder.calls < MaxBuilderCalls
    /\ builder' = [builder EXCEPT
                       !.on = @ \cup {event},
                       !.calls = @ + 1,
                       !.last = [op |-> "on", result |-> "Ok", arg |-> <<event>>]]
    /\ UNCHANGED <<clientVars, engineVars, wsVars, sessVars, pollVars>>

BuilderOn == \E event \in BuilderEvents : builder_on(event)

\* SocketBuilder::connect: the socket is returned when its connect is Ok.
builder_connect(result) ==
    /\ builder.stage = "building"
    /\ builder' = [builder EXCEPT
                       !.stage = IF result = "Ok" THEN "connected" ELSE "dropped",
                       !.last = [op |-> "connect", result |-> result, arg |-> <<>>]]
    /\ UNCHANGED <<clientVars, engineVars, wsVars, sessVars, pollVars>>

BuilderConnect == \E result \in SocketResults : builder_connect(result)

\* The events handed to Socket::on.
SocketEvents == {"test"}

\* The record of a call on the Socket: its result, and the callbacks and the
\* stage of the socket as the call was made.
SocketOp(name, result, arg) ==
    [op |-> name, result |-> result, arg |-> arg,
     before |-> [on |-> builder.on, stage |-> builder.stage]]

\* A registration stored whatever the stage of the socket is.
socket_transport_on_Unguarded(event) ==
    [result |-> "Ok", on |-> builder.on \cup {event}]

\* The on of the transport the Socket holds (socketio TransportClient::on),
\* after the specification: the callback is stored until the socket is
\* connected, and a registration after connect fails with
\* IllegalActionAfterOpen.
socket_transport_on(event) ==
    IF builder.stage = "connected"
    THEN [result |-> "IllegalActionAfterOpen", on |-> builder.on]
    ELSE [result |-> "Ok", on |-> builder.on \cup {event}]

\* Socket::on: the result of the transport's on.
socket_on(event) ==
    LET r == socket_transport_on(event) IN
    /\ builder.stage \in {"building", "connected"}
    /\ builder' = [builder EXCEPT
                       !.on = r.on,
                       !.last = SocketOp("socket_on", r.result, <<event>>)]
    /\ UNCHANGED <<clientVars, engineVars, wsVars, sessVars, pollVars>>

SocketOn == \E event \in SocketEvents : socket_on(event)

\* The connect of the transport the Socket holds (socketio
\* TransportClient::connect): the stage of the socket after it returned result.
\* A socket that is not connected is connected by Ok and stays as it is after
\* an error. What a failed connect leaves of a connection made before is not
\* stated: the socket stays connected with kept true and is not connected any
\* more with kept false.
socket_transport_connect(result, kept) ==
    IF result = "Ok" THEN "connected"
    ELSE IF builder.stage = "connected" /\ ~kept THEN "building"
    ELSE builder.stage

\* Socket::connect: the result of the transport's connect is returned, and the
\* socket stays with its caller whatever the result is.
socket_connect(result, kept) ==
    /\ builder.stage \in {"building", "connected"}
    /\ builder' = [builder EXCEPT
                       !.stage = socket_transport_connect(result, kept),
                       !.last = SocketOp("socket_connect", result, <<>>)]
    /\ UNCHANGED <<clientVars, engineVars, wsVars, sessVars, pollVars>>

SocketConnect ==
    \E result \in SocketResults, kept \in BOOLEAN : socket_connect(result, kept)

----------------------------------------------------------------------------
(* Specifications.                                                         *)

\* The outstanding acks: any number of emit_with_ack calls and inbound ACKs.
Init ==
    /\ ClientInit
    /\ on = {Message, Error, Connect, Close, Custom(Str("test"))}
    /\ EngineInit
    /\ WsInit
    /\ SessInit
    /\ PollInit
    /\ BuilderInit

Next ==
    \/ Tick
    \/ EmitWithAck
    \/ PollNextAck
    \/ RemoveStep

Spec == Init /\ [][Next]_vars

\* The dispatch of every packet type, with at most one outstanding ack; the
\* locks the dispatch awaits may be held by other tasks.
InitDispatch == ClientInit /\ EngineInit /\ WsInit /\ SessInit /\ PollInit /\ BuilderInit

NextDispatch ==
    \/ Tick
    \/ EmitWithAckOnce
    \/ PollNext
    \/ RemoveStep
    \/ PollNextPending
    \/ RemovePending

SpecDispatch == InitDispatch /\ [][NextDispatch]_vars

\* The Engine.IO socket.
InitEngine ==
    /\ EngineInit
    /\ WsInit
    /\ SessInit
    /\ ClientInit
    /\ on = {Message, Error}
    /\ PollInit
    /\ BuilderInit

NextEngine ==
    \/ Bind
    \/ OnOpen
    \/ OnClose
    \/ OnPacket
    \/ OnData
    \/ OnError
    \/ SocketOn
    \/ SocketConnect

SpecEngine == InitEngine /\ [][NextEngine]_vars

\* EngineSocket::emit and emit_binary_attachment before and after a bind.
NextEmit ==
    \/ Bind
    \/ Emit
    \/ EmitBinaryAttachment

SpecEmit == InitEngine /\ [][NextEmit]_vars

\* The WebSocket transport with an upgrade, two emitting tasks and a poll.
InitWs ==
    /\ ClientInit
    /\ on = {Message, Error}
    /\ EngineInit
    /\ WsInit
    /\ SessInit
    /\ PollInit
    /\ BuilderInit

NextWs ==
    \/ Upgrade
    \/ WsEmit
    \/ WsPoll

SpecWs == InitWs /\ [][NextWs]_vars

\* The WebSocket transport with one task that emits packet after packet.
SpecFifo == InitWs /\ [][FifoEmit]_vars

\* TransportClient::open, emit and poll called on the client itself.
NextTransport ==
    \/ TransportOpen
    \/ TransportEmit
    \/ TransportPoll
    \/ SetCallback

SpecTransport == InitEngine /\ [][NextTransport]_vars

\* bind and the poll loops it spawns.
NextLoop ==
    \/ Bind
    \/ PollCycle

SpecLoop == InitEngine /\ [][NextLoop]_vars

\* A SocketBuilder from new to connect.
NextBuilder ==
    \/ SetNamespace
    \/ BuilderOn
    \/ BuilderConnect

SpecBuilder == InitEngine /\ [][NextBuilder]_vars

\* emit_with_ack calls that succeed or fail, while ACKs are handled by poll_next
\* on a clone of the client.
NextEmitAck ==
    \/ EmitWithAckAny
    \/ PollNextReply
    \/ RemoveStep

SpecEmitAck == InitDispatch /\ [][NextEmitAck]_vars

\* The Client's connect and disconnect on its InnerSocket.
InitSession ==
    /\ ClientInit
    /\ EngineInit
    /\ WsInit
    /\ SessInit
    /\ PollInit
    /\ BuilderInit

NextSession ==
    \/ ClientConnect
    \/ ClientDisconnect
    \/ ClientEmit

SpecSession == InitSession /\ [][NextSession]_vars

----------------------------------------------------------------------------
(* Properties of the Client.                                               *)

\* handle_ack has walked the list and made its removals, and is about to return.
AckHandled == pc = "remove" /\ to_be_removed = <<>>
\* The id of the ACK being handled.
AckId == Unwrap(Unwrap(packet).id)
\* The entries of a list that the scan found in the list.
Scanned(acks) ==
    LET Old(ack) == \E k \in 1..Len(pre_acks) : pre_acks[k].callback = ack.callback
    IN  SelectSeq(acks, Old)
\* The calls of lastCalls that went to the callback of call c.
CallsOf(c) ==
    LET Mine(call) == call.target = "ack" /\ call.cb = c
    IN  SelectSeq(lastCalls, Mine)
Payloads(calls) == [i \in 1..Len(calls) |-> calls[i].payload]

\* C1: a packet whose nsp differs from the client's nsp invokes no user callback,
\* neither one of the `on` table nor an ack callback, and poll_next never yields it.
C1_NamespaceIsolation ==
    /\ (lastItem.tag = "Ok" /\ Unwrap(lastItem.packet).nsp # nsp)
          => (lastCalls = <<>> /\ lastYield = NoYield /\ pc = "idle")
    /\ lastYield.tag = "Ok" => Unwrap(lastYield.packet).nsp = nsp

\* C1 witness: an ACK for another namespace came in carrying a payload and the id
\* of an outstanding entry that is still in time.
C1_Witness ==
    /\ lastItem.tag = "Ok"
    /\ Unwrap(lastItem.packet).nsp # nsp
    /\ HasPayload(Unwrap(lastItem.packet))
    /\ \E k \in 1..Len(outstanding_acks) :
          /\ Some(outstanding_acks[k].id) = Unwrap(lastItem.packet).id
          /\ now < outstanding_acks[k].time_started + outstanding_acks[k].timeout

\* C2: handle_ack calls an ack callback only when, as the ACK is handled, the time
\* since the call's time_started is strictly less than its timeout; an ACK that
\* comes at or after the deadline calls nothing.
C2_AckOnlyInTime ==
    pc = "remove" =>
        \A i \in 1..Len(lastCalls) :
            lastCalls[i].target = "ack" =>
                scan_time - issued[lastCalls[i].cb].time_started
                    < issued[lastCalls[i].cb].timeout

\* C2 witness: an ACK with a payload is being handled that matches an entry at its
\* deadline exactly, and an entry still in time.
C2_Witness ==
    /\ pc = "remove"
    /\ HasPayload(Unwrap(packet))
    /\ \E k \in 1..Len(pre_acks) :
          /\ pre_acks[k].id = AckId
          /\ scan_time - pre_acks[k].time_started = pre_acks[k].timeout
    /\ \E k \in 1..Len(pre_acks) :
          /\ pre_acks[k].id = AckId
          /\ scan_time - pre_acks[k].time_started < pre_acks[k].timeout

\* C3: over any sequence of inbound ACKs, repeated ones included, the callback of
\* an emit_with_ack call is invoked with the server's ack payload by exactly one
\* ACK if the ACK answering the call (the first with the call's id) arrives before
\* the deadline, and by no ACK otherwise.
C3_ExactlyOnceIffInTime ==
    \A c \in 1..Len(issued) : invoked[c] = (IF arrived[c] = "in_time" THEN 1 ELSE 0)

\* C4: no two entries of outstanding_acks have the same id.
C4_UniqueIds ==
    \A j, k \in 1..Len(outstanding_acks) :
        j # k => outstanding_acks[j].id # outstanding_acks[k].id

\* C5: after handle_ack has processed an ACK with id i, no entry with id i is
\* left of those it found, and every entry it found with another id is still
\* there, in the original order.
C5_RemovesExactlyTheId ==
    (AckHandled /\ IsSome(Unwrap(packet).id)) =>
        LET Other(ack) == ack.id # AckId
        IN  Scanned(outstanding_acks) = SelectSeq(pre_acks, Other)

\* C6: when handle_ack has walked the list, no entry whose deadline had passed is
\* left in it, whatever its id, and no callback of such an entry was invoked.
C6_TimedOutReaped ==
    AckHandled =>
        /\ \A k \in 1..Len(outstanding_acks) :
              (\E j \in 1..Len(pre_acks) :
                    pre_acks[j].callback = outstanding_acks[k].callback)
                 => scan_time - outstanding_acks[k].time_started
                       < outstanding_acks[k].timeout
        /\ \A j \in 1..Len(pre_acks) :
              scan_time - pre_acks[j].time_started >= pre_acks[j].timeout
                 => CallsOf(pre_acks[j].callback) = <<>>

\* What an ACK's payload makes of calls: the text, then the first attachment.
ExpectedPayloads(p) ==
    IF IsSome(p.data) /\ ~IsSome(p.attachments)
    THEN <<PString(Unwrap(p.data))>>
    ELSE IF ~IsSome(p.data) /\ IsSome(p.attachments) /\ Unwrap(p.attachments) # <<>>
    THEN <<PBinary(Head(Unwrap(p.attachments)))>>
    ELSE IF IsSome(p.data) /\ IsSome(p.attachments) /\ Unwrap(p.attachments) # <<>>
    THEN <<PString(Unwrap(p.data)), PBinary(Head(Unwrap(p.attachments)))>>
    ELSE <<>>

\* Two sequences of payloads agree in length, and in kind and value at every place.
SamePayloads(a, b) ==
    /\ Len(a) = Len(b)
    /\ \A i \in 1..Len(a) : a[i].kind = b[i].kind /\ a[i].v = b[i].v

\* C7: an in-time ACK that matches an outstanding entry calls the entry's callback
\* once with Binary(attachment 0) when it has only an attachment, once with the
\* text when it has only text, and twice, text first, when it has both.
C7_AckPayloads ==
    (pc = "remove" /\ IsSome(Unwrap(packet).id)) =>
        \A k \in 1..Len(pre_acks) :
            (/\ pre_acks[k].id = AckId
             /\ scan_time - pre_acks[k].time_started < pre_acks[k].timeout)
               => SamePayloads(Payloads(CallsOf(pre_acks[k].callback)),
                               ExpectedPayloads(Unwrap(packet)))

\* C7 witness: an in-time ACK with text and an attachment is being handled.
C7_Witness ==
    /\ pc = "remove"
    /\ IsSome(Unwrap(packet).data)
    /\ IsSome(Unwrap(packet).attachments)
    /\ IsSome(Unwrap(packet).id)
    /\ \E k \in 1..Len(pre_acks) :
          /\ pre_acks[k].id = AckId
          /\ scan_time - pre_acks[k].time_started < pre_acks[k].timeout
          /\ Len(CallsOf(pre_acks[k].callback)) = 2

\* C17: the Ok packets the Client stream yields are exactly the packets of the
\* underlying socket whose nsp is the client's, in the same order: every such
\* packet that poll_next has taken and is done with has been yielded, before the
\* next item is taken, and nothing else is yielded.
C17_YieldsInOrder ==
    /\ (/\ pc = "idle"
        /\ nRecv > 0
        /\ lastItem.tag = "Ok"
        /\ Unwrap(lastItem.packet).nsp = nsp)
          => lastYield = YieldOk(Unwrap(lastItem.packet))
    /\ lastYield.tag = "Ok"
          => /\ lastYield.packet = lastItem.packet
             /\ Unwrap(lastYield.packet).nsp = nsp

\* C20: once the underlying socket stream has ended (it gave None), the Client
\* stream returns the end of the stream.
C20_StreamEnds ==
    (pc = "idle" /\ nRecv > 0 /\ lastItem.tag = "None") => lastYield.tag = "None"

\* The calls the last call of the Client that returned made on the socket.
NewCalls == [i \in 1..Len(lastClientOp.made) |-> socket_log[lastClientOp.made[i]]]

\* C18: connect first connects the underlying socket and only then sends a
\* CONNECT packet with the configured nsp, no id, no data and no attachments; if
\* connecting fails it returns that error and sends nothing.
C18_ConnectThenSend ==
    /\ lastClientOp.op = "connect" =>
          /\ NewCalls # <<>>
          /\ NewCalls[1].call = "connect"
          /\ IF NewCalls[1].result # "Ok"
             THEN /\ Len(NewCalls) = 1
                  /\ lastClientOp.result = NewCalls[1].result
             ELSE /\ Len(NewCalls) = 2
                  /\ NewCalls[2].call = "send"
                  /\ NewCalls[2].packet =
                        <<[packet_type |-> "Connect", nsp |-> nsp, data |-> <<>>,
                           id |-> <<>>, attachment_count |-> 0, attachments |-> <<>>]>>
                  /\ lastClientOp.result = NewCalls[2].result
    /\ \A e \in in_flight :
          e.op = "connect" =>
             /\ socket_log[e.made[1]].call = "connect"
             /\ IF Len(e.made) = 1
                THEN socket_log[e.made[1]].result = "pending"
                ELSE /\ socket_log[e.made[1]].result = "Ok"
                     /\ socket_log[e.made[2]].call = "send"

\* C18 witness: a connect has returned Ok after an earlier one failed to connect;
\* an emit on a clone was made between its two calls.
C18_Witness ==
    /\ lastClientOp = ClientOp("connect", "Ok", <<2, 4>>)
    /\ socket_log[1].call = "connect"
    /\ socket_log[1].result = "Err"
    /\ socket_log[3].call = "emit"
    /\ Len(socket_log) = 4

\* C19: disconnect sends a DISCONNECT packet for the client's nsp and afterwards
\* closes the Engine.IO socket; the close never comes before the DISCONNECT.
C19_SendThenClose ==
    /\ lastClientOp.op = "disconnect" =>
        /\ NewCalls # <<>>
        /\ NewCalls[1].call = "send"
        /\ NewCalls[1].packet =
              <<[packet_type |-> "Disconnect", nsp |-> nsp, data |-> <<>>,
                 id |-> <<>>, attachment_count |-> 0, attachments |-> <<>>]>>
        /\ \A i \in 1..Len(NewCalls) : NewCalls[i].call = "disconnect" => i = 2
        /\ (lastClientOp.result = "Ok")
              = (/\ Len(NewCalls) = 2
                 /\ NewCalls[1].result = "Ok"
                 /\ NewCalls[2].call = "disconnect"
                 /\ NewCalls[2].result = "Ok")
    /\ \A e \in in_flight :
          e.op = "disconnect" =>
             /\ socket_log[e.made[1]].call = "send"
             /\ IF Len(e.made) = 1
                THEN socket_log[e.made[1]].result = "pending"
                ELSE /\ socket_log[e.made[1]].result = "Ok"
                     /\ socket_log[e.made[2]].call = "disconnect"

\* C19 witness: a disconnect after a connect has sent DISCONNECT and closed.
C19_Witness ==
    /\ lastClientOp = ClientOp("disconnect", "Ok", <<3, 4>>)
    /\ socket_log[1].call = "connect"
    /\ socket_log[4].call = "disconnect"

\* The entries the scan found with the id of the ACK, and the entries pushed by
\* emit_with_ack since the scan: the list has grown by that many entries, which
\* are those of the calls that pushed last.
MatchedCount == Cardinality({k \in 1..Len(pre_acks) : pre_acks[k].id = AckId})
AppendedSince == Len(outstanding_acks) - (Len(pre_acks) - MatchedCount)
PushedCalls == SelectSeq([c \in 1..Len(issued) |-> c], Pushed)
AppendedEntries ==
    [j \in 1..AppendedSince |->
        LET c == PushedCalls[Len(PushedCalls) - AppendedSince + j]
        IN  Ack(issued[c].id, issued[c].timeout, issued[c].time_started, c)]

\* C32: when an emit_with_ack runs between handle_ack's scan and its removals,
\* handle_ack still removes exactly the entries it matched: what is left are the
\* other entries the scan found, in order, followed by the appended entries.
C32_RemovalWithEmit ==
    (AckHandled /\ IsSome(Unwrap(packet).id) /\ AppendedSince > 0)
       => LET Other(ack) == ack.id # AckId
          IN  outstanding_acks = SelectSeq(pre_acks, Other) \o AppendedEntries

\* C30: emit_with_ack appends the entry before it hands the packet to the socket,
\* so an ACK handled after the packet was sent finds the entry: while no ACK with
\* the call's id has been handled, the entry of every call whose packet was sent
\* is in outstanding_acks.
C30_EntryRecorded ==
    pc = "idle" =>
        \A c \in 1..Len(issued) :
            (c <= Len(sent) /\ arrived[c] = "none")
               => \E k \in 1..Len(outstanding_acks) : outstanding_acks[k].callback = c

\* The packet of the given type that poll_next took last, dispatched and yielded.
Dispatched(type) ==
    /\ lastItem.tag = "Ok"
    /\ lastYield = YieldOk(Unwrap(lastItem.packet))
    /\ Unwrap(lastItem.packet).packet_type = type
    /\ Unwrap(lastItem.packet).nsp = nsp

\* The text of the last packet's data, whether it is a JSON array with at least
\* one element, and the elements of the array.
LastData == Unwrap(Unwrap(lastItem.packet).data)
Elements(d) == from_str(d).val.a
IsArrayText(d) ==
    /\ from_str(d).ok
    /\ from_str(d).val.t = "Array"
    /\ Len(Elements(d)) > 0
ElementCount(d) == Len(Elements(d))

\* The event the array names: element 0 when there is more than one element and
\* it is a string, "message" when it is not a string, Message for one element.
NamedEvent(d) ==
    IF ElementCount(d) > 1
    THEN (IF Elements(d)[1].t = "String" THEN EventFrom(Str(Elements(d)[1].s))
          ELSE Message)
    ELSE Message
\* The payload: element 1 as JSON text, or element 0 when it is the only one.
NamedPayload(d) ==
    PString(to_string(Elements(d)[IF ElementCount(d) > 1 THEN 2 ELSE 1]))

\* C21: for an EVENT packet whose data is a JSON array, the event is element 0
\* when the array has more than one element and element 0 is a string, and
\* "message" otherwise; the handler registered for the event is called once, with
\* element 1 as JSON text, or with element 0 when the array has one element.
C21_EventDispatch ==
    (Dispatched("Event") /\ IsSome(Unwrap(lastItem.packet).data) /\ IsArrayText(LastData))
       => /\ NamedEvent(LastData) \in on
                => lastCalls = <<OnCall(NamedEvent(LastData), NamedPayload(LastData))>>
          /\ \A i \in 1..Len(lastCalls) : lastCalls[i].payload = NamedPayload(LastData)

\* C21 witness: ["test","A"] has called the handler of "test" with "A" as JSON
\* text.
C21_Witness ==
    /\ Dispatched("Event")
    /\ Unwrap(lastItem.packet).data = Some(T_testA)
    /\ lastCalls = <<OnCall(Custom(Str("test")), PString(<<Q("A")>>))>>

\* C22: when an EVENT packet names an event that has no callback and Message has
\* one, the Message callback is called with the event's payload.
C22_MessageFallback ==
    (/\ Dispatched("Event")
     /\ IsSome(Unwrap(lastItem.packet).data)
     /\ IsArrayText(LastData)
     /\ NamedEvent(LastData) \notin on
     /\ Message \in on)
       => lastCalls = <<OnCall(Message, NamedPayload(LastData))>>

\* The event of a BINARY_EVENT packet: its data without the double quotes, or
\* Message when there is no data.
BinaryEventOf(p) ==
    IF IsSome(p.data)
    THEN EventFrom([i \in 1..Len(Unwrap(p.data)) |->
                       IF Unwrap(p.data)[i].k = "q" THEN W(Unwrap(p.data)[i].s)
                       ELSE Unwrap(p.data)[i]])
    ELSE Message

\* C23: for a BINARY_EVENT packet of the namespace, the handler registered for
\* the packet's event is called exactly once with Binary(attachment 0), and no
\* handler is called when the packet has no attachment.
C23_BinaryEvent ==
    Dispatched("BinaryEvent")
       => LET p == Unwrap(lastItem.packet) IN
          IF IsSome(p.attachments) /\ Len(Unwrap(p.attachments)) > 0
          THEN lastCalls = IF BinaryEventOf(p) \in on
                           THEN <<OnCall(BinaryEventOf(p),
                                         PBinary(Unwrap(p.attachments)[1]))>>
                           ELSE <<>>
          ELSE lastCalls = <<>>

\* C23 witness: a BINARY_EVENT with data "test" and the attachment {4,5,6} has
\* called the handler of test with Binary({4,5,6}).
C23_Witness ==
    /\ Dispatched("BinaryEvent")
    /\ Unwrap(lastItem.packet).data = Some(T_str)
    /\ lastCalls = <<OnCall(Custom(Str("test")), PBinary(B_456))>>

\* C24: when the data of an EVENT packet of the namespace is not a JSON array,
\* the Error callback is called for it (and the packet is handled; the stream
\* goes on).
C24_ErrorOnUnparsable ==
    (/\ Dispatched("Event")
     /\ IsSome(Unwrap(lastItem.packet).data)
     /\ ~(from_str(LastData).ok /\ from_str(LastData).val.t = "Array")
     /\ Error \in on)
       => \E i \in 1..Len(lastCalls) : lastCalls[i].event = Error

\* C31: every packet of the namespace that poll_next takes from the socket is
\* dispatched in full and yielded, also when the lock its dispatch awaits is held
\* by another task: once poll_next is back at the socket the packet has been
\* yielded and its callbacks have been called.
C31_NoPacketLost ==
    (/\ pc = "idle"
     /\ lastItem.tag = "Ok"
     /\ Unwrap(lastItem.packet).nsp = nsp)
       => /\ lastYield.tag = "Ok"
          /\ ~IsAckType(Unwrap(lastItem.packet))
                => lastCalls = handle_other(Unwrap(lastItem.packet)).calls

\* C33: handle_event returns Ok, without a panic, for every EVENT packet whatever
\* its data.
C33_HandleEventTotal ==
    (/\ lastItem.tag = "Ok"
     /\ Unwrap(lastItem.packet).packet_type = "Event"
     /\ Unwrap(lastItem.packet).nsp = nsp)
       => pc # "panicked"

\* The ACK being handled has no id, or an id that no entry the scan found has.
Unmatched ==
    /\ pc = "remove"
    /\ \/ ~IsSome(Unwrap(packet).id)
       \/ \A k \in 1..Len(pre_acks) : pre_acks[k].id # AckId

\* C34: an ACK or BINARY_ACK without an id, or with an id that matches no
\* outstanding entry, calls no ack callback and leaves outstanding_acks as it
\* was; a packet of any other kind leaves outstanding_acks as it was.
C34_AcksUntouched ==
    /\ [](Unmatched => /\ lastCalls = <<>>
                       /\ to_be_removed = <<>>
                       /\ Scanned(outstanding_acks) = pre_acks)
    /\ [][(/\ nRecv' = nRecv + 1
           /\ lastItem'.tag = "Ok"
           /\ ~IsAckType(Unwrap(lastItem'.packet)))
             => (outstanding_acks' = outstanding_acks /\ pc' # "remove")]_vars

\* C34 witness: an ACK that carries a payload but no id is being handled while
\* an entry is outstanding and in time.
C34_Witness ==
    /\ pc = "remove"
    /\ ~IsSome(Unwrap(packet).id)
    /\ HasPayload(Unwrap(packet))
    /\ lastCalls = <<>>
    /\ \E k \in 1..Len(outstanding_acks) :
          scan_time - outstanding_acks[k].time_started < outstanding_acks[k].timeout

\* C36: when sending the DISCONNECT packet fails, disconnect returns that error
\* and makes no disconnect call on the socket: the send is the only call it made.
C36_FailedSendLeavesOpen ==
    (/\ lastClientOp.op = "disconnect"
     /\ NewCalls # <<>>
     /\ NewCalls[1].call = "send"
     /\ NewCalls[1].result # "Ok")
       => /\ lastClientOp.result = NewCalls[1].result
          /\ \A i \in 1..Len(NewCalls) : NewCalls[i].call # "disconnect"

\* C36 witness: a disconnect whose send failed, after a connect that succeeded.
C36_Witness ==
    /\ lastClientOp.op = "disconnect"
    /\ lastClientOp.result = "Err"
    /\ NewCalls = <<SocketCall("send",
                               Some(Packet("Disconnect", nsp, None, None, 0, None)),
                               "Err")>>
    /\ lastClientOp.made = <<3>>
    /\ socket_log[1] = SocketCall("connect", None, "Ok")

\* The step of an emit_with_ack call that was at stage.
StepFrom(e, stage) == e \in in_flight \ in_flight' /\ e.stage = stage

\* C35: an emit_with_ack that fails to build its packet returns the error, with
\* outstanding_acks as it was and nothing handed to send; one that builds the
\* packet appends its entry, hands the packet to send and returns what send
\* returns, an error included, and neither the send nor the return removes the
\* entry or any other: an entry is removed by handle_ack only, so that the entry
\* of a call whose send has failed is there unless an ACK with its id was
\* handled in between.
C35_EmitWithAckFailures ==
    [][/\ (/\ Len(socket_log') = Len(socket_log) + 1
           /\ socket_log'[Len(socket_log')].call = "build_packet_for_payload"
           /\ socket_log'[Len(socket_log')].result # "Ok")
          => /\ lastClientOp'.op = "emit_with_ack"
             /\ lastClientOp'.result = socket_log'[Len(socket_log')].result
             /\ outstanding_acks' = outstanding_acks
             /\ sent' = sent
             /\ in_flight' = in_flight
       /\ \A e \in in_flight :
             /\ StepFrom(e, "lock")
                   => /\ Len(outstanding_acks') = Len(outstanding_acks) + 1
                      /\ SubSeq(outstanding_acks', 1, Len(outstanding_acks))
                            = outstanding_acks
                      /\ outstanding_acks'[Len(outstanding_acks')].callback = e.call
                      /\ Some(outstanding_acks'[Len(outstanding_acks')].id)
                            = Unwrap(socket_log[e.made[1]].packet).id
                      /\ sent' = sent
             /\ StepFrom(e, "pushed")
                   => /\ outstanding_acks' = outstanding_acks
                      /\ sent' = Append(sent, Unwrap(socket_log[e.made[1]].packet))
             /\ StepFrom(e, "sending")
                   => /\ socket_log[e.made[1]].call = "build_packet_for_payload"
                      /\ socket_log[e.made[1]].result = "Ok"
                      /\ socket_log'[e.made[2]].call = "send"
                      /\ lastClientOp'.op = "emit_with_ack"
                      /\ lastClientOp'.result = socket_log'[e.made[2]].result
                      /\ outstanding_acks' = outstanding_acks
                      /\ sent' = sent
       /\ Len(outstanding_acks') < Len(outstanding_acks)
             => (pc = "remove" /\ in_flight' = in_flight)]_vars

\* C35 as it was stated: when an emit_with_ack that has built its packet
\* returns, the entry recorded for the call is in outstanding_acks.
C35_EntryRemains ==
    [][\A e \in in_flight :
          StepFrom(e, "sending")
             => \E k \in 1..Len(outstanding_acks') :
                   /\ outstanding_acks'[k].callback = e.call
                   /\ Some(outstanding_acks'[k].id)
                         = Unwrap(socket_log'[e.made[2]].packet).id]_vars

\* C35 witness: after an emit_with_ack that could not build its packet, another
\* has failed in send and returned the error; its entry is the only one.
C35_Witness ==
    /\ lastClientOp = ClientOp("emit_with_ack", "Err", <<2, 3>>)
    /\ in_flight = {}
    /\ Len(socket_log) = 3
    /\ socket_log[1].call = "build_packet_for_payload" /\ socket_log[1].result = "Err"
    /\ socket_log[3].call = "send" /\ socket_log[3].result = "Err"
    /\ Len(outstanding_acks) = 1
    /\ Some(outstanding_acks[1].id) = Unwrap(socket_log[3].packet).id

----------------------------------------------------------------------------
(* Properties of the Engine.IO socket.                                     *)

IsRegistration == lastOp.op \in Slots
IsEmit == lastOp.op \in {"emit", "emit_binary_attachment"}
IsSocketOn == builder.last.op = "socket_on"

\* C8: a registration through on_open, on_close, on_packet, on_data or on_error
\* that finds the socket not connected returns Ok and stores the callback, and so
\* does Socket::on before connect and after a connect that failed; once a bind
\* has returned Ok the flag reads true, and once connect has returned Ok the
\* socket is connected, which no registration changes and only a later connect
\* that fails can; a registration that finds it so returns
\* IllegalActionAfterOpen and leaves the callbacks as they were.
C8_RegistrationGuard ==
    /\ opened => is_connected
    /\ IsRegistration =>
          IF lastOp.before.connected
          THEN /\ lastOp.result = "IllegalActionAfterOpen"
               /\ callbacks = lastOp.before.callbacks
          ELSE /\ lastOp.result = "Ok"
               /\ callbacks = [lastOp.before.callbacks EXCEPT
                                  ![lastOp.op] = Some(lastOp.arg[1])]
    /\ (builder.last.op = "socket_connect" /\ builder.last.result = "Ok")
          => builder.stage = "connected"
    /\ (builder.last.op \in {"socket_on", "socket_connect"}
           /\ builder.last.before.stage = "connected"
           /\ builder.stage # "connected")
          => (builder.last.op = "socket_connect" /\ builder.last.result # "Ok")
    /\ IsSocketOn => builder.stage = builder.last.before.stage
    /\ (IsSocketOn /\ builder.last.before.stage = "connected")
          => /\ builder.last.result = "IllegalActionAfterOpen"
             /\ builder.on = builder.last.before.on
    /\ (IsSocketOn /\ builder.last.before.stage = "building")
          => /\ builder.last.result = "Ok"
             /\ builder.on = builder.last.before.on \cup {builder.last.arg[1]}

\* C8 witness: after a bind that returned Ok a registration in on_data was
\* refused and left the slot empty while the callback registered in on_open is
\* stored, and Socket::on was refused on a connected socket for an event that
\* has no callback, and none is stored.
C8_Witness ==
    /\ opened
    /\ lastOp.op = "on_data"
    /\ lastOp.result = "IllegalActionAfterOpen"
    /\ lastOp.arg = <<"f">>
    /\ callbacks["on_data"] = None
    /\ callbacks["on_open"] = Some("f")
    /\ IsSocketOn
    /\ builder.last.result = "IllegalActionAfterOpen"
    /\ builder.last.arg = <<"test">>
    /\ builder.last.before.stage = "connected"
    /\ builder.on = {}

\* C9: emit and emit_binary_attachment on a socket whose connected flag is false
\* return ActionBeforeOpen and hand nothing to the transport; with the flag true
\* they hand the packet to the transport's emit, is_binary_att false for emit and
\* true for emit_binary_attachment, whose attachment is wrapped in a MESSAGE
\* packet. Only a call that read the flag true goes on to the transport, every
\* packet the transport is handed is the packet of such a call, and what the
\* call returns then is what the transport's emit returned.
C9_EmitGuard ==
    /\ [](IsEmit =>
             IF ~lastOp.before.connected
             THEN lastOp.result = "ActionBeforeOpen"
             ELSE /\ lastOp.result \in {"Ok", "HttpError"}
                  /\ Len(transport_log) > lastOp.before.handed
                  /\ transport_log[lastOp.before.handed + 1] =
                        (IF lastOp.op = "emit"
                         THEN [packet |-> lastOp.arg[1], is_binary_att |-> FALSE]
                         ELSE [packet |-> [packet_id |-> "Message",
                                           data |-> lastOp.arg[1]],
                               is_binary_att |-> TRUE]))
    /\ [](\A t \in Callers :
             callers[t].op \in {"emit", "emit_binary_attachment"} => callers[t].read)
    /\ [][transport_log' # transport_log
             => \E t \in Callers :
                   /\ callers[t].pc = "checked"
                   /\ callers[t].read
                   /\ callers'[t].pc = "in_transport"
                   /\ transport_log' =
                         Append(transport_log,
                                IF callers[t].op = "emit"
                                THEN [packet |-> callers[t].arg[1],
                                      is_binary_att |-> FALSE]
                                ELSE [packet |-> [packet_id |-> "Message",
                                                  data |-> callers[t].arg[1]],
                                      is_binary_att |-> TRUE])]_vars
    /\ [][(/\ callers' = callers
            /\ lastOp' # lastOp
            /\ lastOp'.op \in {"emit", "emit_binary_attachment"})
             => /\ ~connected
                /\ lastOp'.result = "ActionBeforeOpen"
                /\ transport_log' = transport_log]_vars

\* C9 witness: an emit that read the flag true has returned, no call is in
\* progress, and the transport was handed the attachment of an
\* emit_binary_attachment and then the packet of the emit.
C9_Witness ==
    /\ lastOp.op = "emit"
    /\ lastOp.before.connected
    /\ lastOp.before.handed = 1
    /\ \A t \in Callers : callers[t] = Idle
    /\ Len(transport_log) = 2
    /\ transport_log[1].is_binary_att
    /\ ~transport_log[2].is_binary_att

\* C10: after TransportClient::open or EngineSocket::bind has returned Ok the
\* connected flag reads true.
C10_ConnectedAfterOpen ==
    (lastOp.op \in {"open", "bind"} /\ lastOp.result = "Ok") => connected

----------------------------------------------------------------------------
(* Properties of the transport client, the poll loop and the builder.      *)

\* The response the last poll decoded holds a PING.
PolledPing ==
    /\ lastOp.op = "poll"
    /\ lastOp.result \in {"Ok", "panic_todo"}
    /\ \E i \in 1..Len(lastOp.arg[1].packets) :
          lastOp.arg[1].packets[i].packet_id = "Ping"

\* C25: a poll that receives a PING sends a PONG with the same body, and goes on
\* with the packets that follow: it returns Ok.
C25_PongOnPing ==
    PolledPing =>
        /\ lastOp.result = "Ok"
        /\ \A i \in 1..Len(lastOp.arg[1].packets) :
              lastOp.arg[1].packets[i].packet_id = "Ping"
                 => \E j \in (lastOp.before.requests + 1)..Len(requests) :
                       requests[j] = Post(<<[packet_id |-> "Pong",
                                             data |-> lastOp.arg[1].packets[i].data]>>)

\* The last call was an open that got a handshake response.
OpenAnswered ==
    /\ lastOp.op = "open"
    /\ ~lastOp.before.connected
    /\ lastOp.arg[1] = "http://localhost:4200"
    /\ lastOp.arg[2].ok

\* C27: open fails with HandshakeError whenever the first record of the response
\* is not an OPEN packet (kind digit 0) whose body is the handshake JSON, and
\* then it stores no connection data.
C27_HandshakeChecked ==
    (OpenAnswered /\ lastOp.arg[2].text # <<W("0"), HandshakeJson>>)
       => /\ lastOp.result = "HandshakeError"
          /\ ~(lastOp.arg[2].text[1] # W("0") /\ IsSome(connection_data))

\* C28: TransportClient::emit and poll on a client that is not connected return
\* ActionBeforeOpen and make no HTTP request; on a connected client they do not
\* return ActionBeforeOpen.
C28_ActionBeforeOpen ==
    lastOp.op \in {"transport_emit", "poll"}
       => IF lastOp.before.connected
          THEN lastOp.result # "ActionBeforeOpen"
          ELSE /\ lastOp.result = "ActionBeforeOpen"
               /\ Len(requests) = lastOp.before.requests

\* C29: the poll loop of a thread stops for good once poll_cycle returns Ok, is
\* aborted when it returns HttpError or ReqwestError, and goes on polling after
\* every other error; a loop that has stopped or was aborted never polls again.
C29_PollLoop ==
    /\ [](\A i \in 1..Len(poll_loop) :
             poll_loop[i].state =
                (CASE poll_loop[i].last = "Ok" -> "stopped"
                   [] poll_loop[i].last \in {"HttpError", "ReqwestError"} -> "panicked"
                   [] OTHER -> "polling"))
    /\ [][\A i \in 1..Len(poll_loop) :
             poll_loop[i].state # "polling" => poll_loop'[i] = poll_loop[i]]_vars

\* C29 witness: one loop polled again after an error and then stopped on Ok,
\* another was aborted by an HttpError.
C29_Witness ==
    \E i, j \in 1..Len(poll_loop) :
        /\ poll_loop[i].state = "stopped" /\ poll_loop[i].cycles >= 2
        /\ poll_loop[j].state = "panicked" /\ poll_loop[j].last = "HttpError"

\* C38: whatever bind calls are made on the clones of one EngineSocket, at most
\* one poll loop is started for the shared transport client.
C38_OneLoop == threads <= 1 /\ Len(poll_loop) <= 1

\* C26: set_namespace returns IllegalNamespace for every namespace that does not
\* begin with '/', and otherwise makes it the socket's namespace; the namespace
\* of a socket under construction, and of every socket connect returns, begins
\* with '/'.
C26_NamespaceSlash ==
    /\ builder.last.op = "set_namespace"
          => IF builder.last.arg # <<>> /\ Head(builder.last.arg) = "/"
             THEN /\ builder.last.result = "Ok"
                  /\ builder.stage = "building"
                  /\ builder.nsp = Some(builder.last.arg)
             ELSE /\ builder.last.result = "IllegalNamespace"
                  /\ builder.stage = "dropped"
    /\ builder.stage \in {"building", "connected"}
          => /\ IsSome(builder.nsp)
             /\ Unwrap(builder.nsp) # <<>>
             /\ Head(Unwrap(builder.nsp)) = "/"

\* C26 witness: a socket was connected after set_namespace had set "/a" and had
\* been called more than once.
C26_Witness ==
    /\ builder.stage = "connected"
    /\ builder.nsp = Some(<<"/", "a">>)
    /\ builder.calls >= 2
    /\ builder.on = {}

----------------------------------------------------------------------------
(* Properties of the WebSocket transport.                                  *)

PingFrame == Frame(MsgText(<<"2", "probe">>), "upgrade", 1)
UpgradeFrame == Frame(MsgText(<<"5">>), "upgrade", 1)
PongBytes == <<"3", "probe">>
FramesBy(t) == LET Mine(f) == f.by = t IN SelectSeq(wire, Mine)
UpgradeSent == \E i \in 1..Len(wire) : wire[i] = UpgradeFrame
UpgradeResult == tasks["upgrade"].calls[1].result
UpgradeReturned == tasks["upgrade"].pc = "done"

\* C11: upgrade sends the text PING "probe", then receives exactly one frame,
\* then sends the text UPGRADE with an empty body: the frames of upgrade on the
\* wire are the PING and then the UPGRADE, a frame is received only once the
\* PING is on the wire, and the send of the UPGRADE is begun only once a frame
\* was received; UPGRADE is never sent unless the frame received is the PONG
\* "probe", and Ok is returned only after UPGRADE was sent.
C11_UpgradeOrder ==
    /\ FramesBy("upgrade") \in {<<>>, <<PingFrame>>, <<PingFrame, UpgradeFrame>>}
    /\ Len(probe) <= 1
    /\ probe # <<>> => FramesBy("upgrade") # <<>>
    /\ (UpgradeSent \/ tasks["upgrade"].pc = "sending_upgrade")
          => /\ Len(probe) = 1
             /\ probe[1].tag = "Msg"
             /\ probe[1].msg[1].data = PongBytes
    /\ (UpgradeReturned /\ UpgradeResult = "Ok") => UpgradeSent

\* C11 witness: upgrade has returned Ok with PING and UPGRADE on the wire.
C11_Witness ==
    /\ UpgradeReturned
    /\ UpgradeResult = "Ok"
    /\ FramesBy("upgrade") = <<PingFrame, UpgradeFrame>>
    /\ probe = <<InMsg(MsgText(PongBytes))>>

\* The probe has failed: the stream ended, or the frame is not the PONG "probe".
ProbeFailed ==
    /\ Len(probe) = 1
    /\ \/ probe[1].tag = "None"
       \/ probe[1].tag = "Msg" /\ probe[1].msg[1].data # PongBytes

\* C12: when the probe fails, because the inbound stream ends before a frame
\* arrives or because the frame is anything other than the PONG "probe", upgrade
\* returns IllegalWebsocketUpgrade.
C12_ProbeFailure ==
    (UpgradeReturned /\ ProbeFailed) => UpgradeResult = "IllegalWebsocketUpgrade"

\* C13: between the probe PING and the UPGRADE packet no frame of an emit is
\* written. From the sender mutex taken by upgrade until upgrade returns no send
\* of an emit is in progress; while upgrade waits for the probe's answer the
\* PING is the last frame on the wire, and while the UPGRADE is sent the last
\* frame is the PING or the UPGRADE; the UPGRADE follows the PING directly, and a
\* frame of an emit follows the PING directly only after upgrade has failed.
C13_NoEmitDuringUpgrade ==
    /\ tasks["upgrade"].pc \in {"sender_locked", "sending_ping", "probing",
                                 "answered", "sending_upgrade"}
          => writing \subseteq {"upgrade"}
    /\ tasks["upgrade"].pc \in {"probing", "answered"}
          => /\ wire # <<>>
             /\ wire[Len(wire)] = PingFrame
             /\ writing = {}
             /\ sink.slot = <<>>
    /\ tasks["upgrade"].pc = "sending_upgrade"
          => /\ wire # <<>>
             /\ wire[Len(wire)] \in {PingFrame, UpgradeFrame}
             /\ writing = {"upgrade"}
    /\ \A i \in 1..Len(wire) :
          wire[i] = UpgradeFrame => (i > 1 /\ wire[i - 1] = PingFrame)
    /\ \A i \in 1..(Len(wire) - 1) :
          (wire[i] = PingFrame /\ wire[i + 1].by # "upgrade")
             => (UpgradeReturned /\ UpgradeResult # "Ok")

\* C13 witness: an emit that was started is waiting while the UPGRADE, handed
\* over after the PING, is flushed, and another emit wrote its frame before the
\* PING.
C13_Witness ==
    /\ tasks["upgrade"].pc = "sending_upgrade"
    /\ tasks["e1"].pc = "lock"
    /\ Len(wire) = 3
    /\ wire[1].by = "e2"
    /\ wire[3] = UpgradeFrame

\* The message emit builds for a call.
MessageOf(call) ==
    IF call.is_binary_att THEN MsgBinary(call.data) ELSE MsgText(call.data)

\* C14: the packets that one task emits one after another, each emit awaited,
\* are written to the transport in the order of the calls and none is
\* duplicated: the frames on the wire are frames of the task's calls, each as
\* its call built it, in the order of the calls, and a frame still in the slot
\* is of a later call than every frame on the wire; none is dropped: every emit
\* that returned Ok has its frame on the wire, so that the frames of calls that
\* all returned Ok are the wire. Only an emit that returned an error can have a
\* frame that is not there.
C14_Fifo ==
    /\ \A i \in 1..Len(wire) :
          /\ wire[i].n \in 1..Len(tasks["e1"].calls)
          /\ wire[i] = Frame(MessageOf(tasks["e1"].calls[wire[i].n]), "e1", wire[i].n)
    /\ \A i, j \in 1..Len(wire) : i < j => wire[i].n < wire[j].n
    /\ sink.slot # <<>>
          => \A i \in 1..Len(wire) : wire[i].n < sink.slot[1].n
    /\ \A k \in 1..Len(tasks["e1"].calls) :
          /\ tasks["e1"].calls[k].result = "Ok"
                => \E i \in 1..Len(wire) : wire[i].n = k
          /\ tasks["e1"].calls[k].result = "Utf8Error"
                => \A i \in 1..Len(wire) : wire[i].n # k
    /\ (\A k \in 1..Len(tasks["e1"].calls) : tasks["e1"].calls[k].result = "Ok")
          => wire = [k \in 1..Len(tasks["e1"].calls) |->
                        Frame(MessageOf(tasks["e1"].calls[k]), "e1", k)]

\* C14 witness: three emits have returned Ok, of a text, a binary and a text.
C14_Witness ==
    /\ Len(tasks["e1"].calls) = 3
    /\ \A k \in 1..3 : tasks["e1"].calls[k].result = "Ok"
    /\ Len(wire) = 3
    /\ wire[1].kind = "text"
    /\ wire[2].kind = "binary"
    /\ wire[3].kind = "text"

\* C15: concurrent emits are serialized: at most one task is writing a frame to
\* the sink, and it holds the sender mutex; a frame is handed to the stream only
\* by the send of that task, and from then until the send ends it is the last
\* frame on the wire; while the frame of the send waits in the slot no other
\* frame is there.
C15_Serialized ==
    /\ [](Cardinality(writing) <= 1)
    /\ [](\A t \in writing :
             /\ sender = t
             /\ sink.at[t] = "ready" => (sink.slot # <<>> /\ sink.slot[1].by = t)
             /\ sink.at[t] = "flush" => (wire # <<>> /\ wire[Len(wire)].by = t))
    /\ [][wire' # wire => \E t \in WsTasks : /\ writing = {t}
                                            /\ writing' = {t}
                                            /\ sender = t]_vars

\* C15 witness: the frame of one emit is handed over and not flushed yet, after
\* the frame that a failed emit had left in the slot, while the other emit
\* waits for the mutex.
C15_Witness ==
    /\ writing = {"e1"}
    /\ sink.at["e1"] = "flush"
    /\ tasks["e2"].pc = "lock"
    /\ Len(wire) = 2
    /\ wire[1].by = "upgrade"
    /\ wire[2].by = "e1"
    /\ UpgradeReturned /\ UpgradeResult = "WebsocketError"
    /\ probe = <<>>

OutsideUpgrade == tasks["upgrade"].pc \in {"idle", "done"}

\* C16: outside of upgrade, a poll suspended on the next inbound frame does not
\* block an emit, and an emit in progress does not block the poll.
C16_Independent ==
    OutsideUpgrade =>
        /\ tasks["poll"].pc = "next" =>
              \A t \in Emitters :
                  (/\ tasks[t].pc = "lock"
                   /\ \A u \in Emitters : tasks[u].pc \notin {"locked", "sending"})
                     => ENABLED ws_emit_lock(t)
        /\ (\E t \in Emitters : tasks[t].pc \in {"locked", "sending"}) =>
              /\ (tasks["poll"].pc = "idle" /\ tasks["poll"].calls = <<>>)
                    => ENABLED ws_poll_lock
              /\ tasks["poll"].pc = "next"
                    => ENABLED (\E in \in Inbound : ws_poll_next(in))

\* The positions of upgrade from the sender mutex taken to its return.
UpgradeHoldsBoth ==
    {"sender_locked", "sending_ping", "probing", "answered", "sending_upgrade"}

\* The mutexes a task holds by its position in its call.
HoldsSender(t) ==
    IF t = "upgrade" THEN tasks[t].pc \in UpgradeHoldsBoth
    ELSE IF t \in Emitters THEN tasks[t].pc \in {"locked", "sending"}
    ELSE FALSE
HoldsReceiver(t) ==
    IF t = "upgrade" THEN tasks[t].pc \in {"receiver_locked"} \cup UpgradeHoldsBoth
    ELSE IF t = "poll" THEN tasks[t].pc = "next"
    ELSE FALSE

\* A step of a call that holds every mutex it takes.
RunningStep ==
    \/ upgrade_send_ping
    \/ \E outcome \in SinkOutcomes : upgrade_ping_flush(outcome)
    \/ \E ok \in BOOLEAN : upgrade_ping_sent(ok)
    \/ \E in \in Inbound : upgrade_next(in)
    \/ upgrade_send_upgrade
    \/ \E outcome \in SinkOutcomes : upgrade_upgrade_flush(outcome)
    \/ \E ok \in BOOLEAN : upgrade_upgrade_sent(ok)
    \/ \E t \in Emitters : ws_emit_message(t)
    \/ \E t \in Emitters, outcome \in SinkOutcomes : ws_emit_flush(t, outcome)
    \/ \E t \in Emitters, ok \in BOOLEAN : ws_emit_sent(t, ok)
    \/ \E in \in Inbound : ws_poll_next(in)

\* A call is waiting for the sender or for the receiver mutex.
WaitsForSender ==
    tasks["upgrade"].pc = "receiver_locked" \/ \E t \in Emitters : tasks[t].pc = "lock"
SenderCanBeTaken ==
    \/ tasks["upgrade"].pc = "receiver_locked" /\ ENABLED upgrade_lock_sender
    \/ \E t \in Emitters : tasks[t].pc = "lock" /\ ENABLED ws_emit_lock(t)

\* C37: upgrade, emit and poll calls running concurrently never deadlock on the
\* two mutexes. The sender mutex is held by upgrade or an emit and by nobody
\* else, the receiver mutex by upgrade or the poll; a mutex is held exactly
\* while its holder is between taking it and returning, so a call that has
\* returned, with or without an error, holds none; and while a call waits for
\* the sender mutex, either it can take it or a call that waits for nothing
\* can take its next step.
C37_NoDeadlock ==
    /\ sender \in {"free", "upgrade"} \cup Emitters
    /\ receiver \in {"free", "upgrade", "poll"}
    /\ \A t \in WsTasks : (sender = t) <=> HoldsSender(t)
    /\ \A t \in WsTasks : (receiver = t) <=> HoldsReceiver(t)
    /\ WaitsForSender => (SenderCanBeTaken \/ ENABLED RunningStep)
    /\ (\A t \in WsTasks : ~HoldsSender(t)) => (WaitsForSender => SenderCanBeTaken)
    /\ (tasks["upgrade"].pc = "idle" /\ receiver = "free") => ENABLED upgrade_lock_receiver
    /\ (tasks["poll"] = [pc |-> "idle", calls |-> <<>>] /\ receiver = "free")
          => ENABLED ws_poll_lock

\* C37 witness: upgrade has returned an error and one emit has returned an
\* error; an emit now holds the sender mutex and the poll the receiver mutex.
C37_Witness ==
    /\ UpgradeReturned /\ UpgradeResult # "Ok"
    /\ tasks["e1"].pc = "idle" /\ tasks["e1"].calls # <<>>
    /\ Cur("e1").result \in {"WebsocketError", "Utf8Error"}
    /\ sender = "e2" /\ tasks["e2"].pc = "sending"
    /\ receiver = "poll" /\ tasks["poll"].pc = "next"

\* C16 witness: a poll is suspended on the receiver while an emit is writing.
C16_Witness ==
    /\ OutsideUpgrade
    /\ tasks["poll"].pc = "next"
    /\ receiver = "poll"
    /\ tasks["e1"].pc = "sending"
    /\ sender = "e1"

====
